---- MODULE Spec2Model ----
(***************************************************************************)
(* Model of the email importance classifier: the classification service    *)
(* (email_classifier_service.py) and the incremental scheduler             *)
(* (incremental_classifier.py) with the two stores they share, the vector  *)
(* store (Qdrant collection) and the ground-truth store (SQLite emails).   *)
(***************************************************************************)
EXTENDS Integers, Sequences, FiniteSets, TLC

VARIABLES
    points,               \* Qdrant collection: sequence of point payloads
    gt,                   \* SQLite emails table: email id -> row
    user_models,          \* service registry: user id -> classifier or NoClassifier
    disk,                 \* persisted artifacts: user id -> directory or NoDir
    uuid_next,            \* next fresh uuid token
    response,             \* last reply to a direct classify call
    request,              \* history: the last request that adds evidence, and its outcome
    sqlite_client,        \* scheduler: TRUE when a SQLite client is connected
    proc,                 \* scheduler process: where main is, and the clients that are open
    tracker,              \* ProcessedEmailsTracker, its file and the threads that call it
    processed_emails,     \* scheduler: self.processed_emails
    pc,                   \* scheduler: position in the cycle
    scan_points,          \* scheduler: points of the scroll not yet examined
    unclassified_by_user, \* scheduler: dict of the cycle, in insertion order
    email_ids,            \* scheduler: process_user_emails, ids from index i on
    results,              \* scheduler: results of the batch not yet written
    written,              \* history: ids for which the scheduler executed an UPDATE
    rewritten,            \* history: ids for which it executed a further UPDATE
    unready_marked,       \* history: ids marked processed because the owner was unready
    failed_ids,           \* history: ids of batches whose submission failed
    found_ready,          \* history: ids this cycle listed for a trained, ready owner
    seen_labeled,         \* history: ids the scan of this cycle examined while labeled
    processed_at_start,   \* history: processed_emails when this cycle started
    train_succeeded,      \* history: users on whose registry classifier a train succeeded
    tasks,                \* service: the requests whose handler is suspended or running
    running               \* service: the request that holds the event loop, if any

vars == <<points, gt, user_models, disk, uuid_next, response, request, sqlite_client,
          proc, tracker,
          tasks, running,
          processed_emails, pc, scan_points, unclassified_by_user, email_ids,
          results, written, rewritten, unready_marked, failed_ids, seen_labeled, found_ready,
          processed_at_start, train_succeeded>>

svc_vars == <<user_models, disk, uuid_next>>
replies == <<response, request>>
sched_vars == <<processed_emails, pc, scan_points, unclassified_by_user,
                email_ids, results>>
sched_hist == <<written, rewritten, unready_marked, failed_ids, seen_labeled, found_ready,
                processed_at_start>>
hist_vars == <<sched_hist, train_succeeded>>
loop_vars == <<tasks, running>>

(***************************************************************************)
(* Bounds and input sets                                                   *)
(***************************************************************************)
MaxPoints == 3      \* points the embedding pipeline stores
MaxUuid == 2        \* uuid tokens drawn (classifier constructions and trainings)
MaxExamples == 2    \* evidence entries per classifier
batch_size == 2     \* --batch-size of the scheduler
MaxEvidence == 10   \* evidence entries per classifier where retraining is observed
MaxTokens == 3      \* uuid tokens drawn where restarts are observed
MaxTasks == 2       \* requests whose handler has started and not yet replied
PageLimit == 2      \* points one scroll returns where the scan of a large store is observed
MaxReference == 2   \* emails in the reference set handed to the feature extractor

Emails == {"e1", "e2", "e3"}
Users == {"u1", "u2"}
None == "None"
PointUser(e) == IF e = "e3" THEN "u2" ELSE "u1"
\* payloads the embedding pipeline writes
Payloads == {[emailId |-> e, userId |-> PointUser(e)] : e \in Emails}
\* emails a user labels by hand while the scheduler runs
HumanLabeled == {"e1"}
\* (label, confidence in percent) pairs a fitted model predicts
Predictions == {[is_important |-> TRUE, confidence |-> 90],
                [is_important |-> FALSE, confidence |-> 60]}

Range(s) == {s[i] : i \in DOMAIN s}
Min(a, b) == IF a < b THEN a ELSE b
Take(s, n) == SubSeq(s, 1, Min(n, Len(s)))
Drop(s, n) == SubSeq(s, Min(n, Len(s)) + 1, Len(s))

(***************************************************************************)
(* Vector store (vector_store_client.py, QdrantClient)                     *)
(***************************************************************************)
\* scroll filtered on emailId "any of ids" with limit len(ids): the first
\* len(ids) matching points in collection order, each as its email id.
\* ok = FALSE: the call raised and the client returned [].
get_emails_by_ids(ids, ok) ==
    IF ~ok THEN <<>>
    ELSE LET matching == SelectSeq(points, LAMBDA p : p.emailId \in Range(ids))
         IN  [i \in 1..Min(Len(ids), Len(matching)) |-> matching[i].emailId]

(***************************************************************************)
(* EmailClassifier (email_classifier_service.py)                           *)
(***************************************************************************)
NoModel == 0
\* a RandomForestClassifier that was constructed and whose fit raised: it has
\* no estimators_, so that its truth test (len) raises AttributeError
UnfittedModel == -1
MinExamples == 2

\* EmailClassifier.__init__ with v the uuid it draws; last_trained is the
\* time of the call, counted in uuids drawn
EmailClassifier(v) ==
    [labeled_examples |-> <<>>, model |-> NoModel, model_version |-> v,
     last_trained |-> v]

\* a user directory: each artifact is <<>> when the file is absent and
\* <<content>> when it is present
EmptyDir == [examples |-> <<>>, model |-> <<>>, metadata |-> <<>>]

\* how far a save_to_disk gets: "saved", or the write that raised (the process
\* dying at that point leaves the same files)
SaveOutcomes == {"saved", "fail_examples", "fail_model", "fail_metadata"}

\* the number of files save_to_disk writes before it stops: labeled_examples.json,
\* then model.pkl "if self.model", then metadata.json
writes_done(cls, outcome) ==
    IF outcome = "fail_examples" THEN 0
    ELSE IF outcome = "fail_model" \/ cls.model = UnfittedModel THEN 1
    ELSE IF outcome = "fail_metadata" THEN 2
    ELSE 3

\* save_to_disk returns True
save_ok(cls, outcome) == writes_done(cls, outcome) = 3

\* save_to_disk at time now: the directory is created, then the files are
\* written in order; model.pkl only when the classifier holds a fitted model
save_to_disk(d, u, cls, outcome, now) ==
    LET old == IF u \in DOMAIN d THEN d[u] ELSE EmptyDir
        n == writes_done(cls, outcome)
        dir == [examples |-> IF n >= 1 THEN <<cls.labeled_examples>>
                             ELSE old.examples,
                model |-> IF n >= 2 /\ cls.model # NoModel
                          THEN <<[model |-> cls.model, saved_at |-> now]>>
                          ELSE old.model,
                metadata |-> IF n >= 3
                             THEN <<[model_version |-> cls.model_version,
                                     last_trained |-> cls.last_trained,
                                     examples_count |-> Len(cls.labeled_examples)]>>
                             ELSE old.metadata]
    IN  [x \in DOMAIN d \cup {u} |-> IF x = u THEN dir ELSE d[x]]

\* a load that keeps the evidence it read when a later read raises
load_from_disk_partial(d, u, v, read_ok) ==
    IF u \notin DOMAIN d THEN EmailClassifier(v)
    ELSE [labeled_examples |-> IF d[u].examples # <<>> THEN d[u].examples[1]
                               ELSE <<>>,
          model |-> IF d[u].model # <<>> /\ read_ok THEN d[u].model[1].model
                    ELSE NoModel,
          model_version |-> IF d[u].metadata # <<>>
                            THEN d[u].metadata[1].model_version ELSE v,
          last_trained |-> IF d[u].metadata # <<>>
                           THEN d[u].metadata[1].last_trained ELSE v]

\* load_from_disk from the directories d, with v the uuid of the fresh instance;
\* read_ok = FALSE when a read or a parse raises
load_from_disk(d, u, v, read_ok) ==
    IF u \notin DOMAIN d \/ ~read_ok THEN EmailClassifier(v)
    ELSE [labeled_examples |-> IF d[u].examples # <<>> THEN d[u].examples[1]
                               ELSE <<>>,
          model |-> IF d[u].model # <<>> THEN d[u].model[1].model ELSE NoModel,
          model_version |-> IF d[u].metadata # <<>>
                            THEN d[u].metadata[1].model_version ELSE v,
          last_trained |-> IF d[u].metadata # <<>>
                           THEN d[u].metadata[1].last_trained ELSE v]

\* a get_or_create_classifier that hydrates from disk on every call
get_or_create_always_loads(u, read_ok) ==
    load_from_disk(disk, u, uuid_next, read_ok)

\* get_or_create_classifier: the registry entry, hydrated when absent
get_or_create_classifier(u, read_ok) ==
    IF u \in DOMAIN user_models THEN user_models[u]
    ELSE load_from_disk(disk, u, uuid_next, read_ok)

SetModel(um, u, cls) ==
    [x \in DOMAIN um \cup {u} |-> IF x = u THEN cls ELSE um[x]]

\* add_training_examples: extend, then save_to_disk
add_training_examples(cls, examples) ==
    [cls EXCEPT !.labeled_examples = @ \o examples]

\* EmailClassifier.train: the evidence entries that resolve in email_data_list
labeled_emails(cls, email_data_list) ==
    SelectSeq(cls.labeled_examples,
              LAMBDA ex : ex.email_id \in Range(email_data_list))

\* what the body of EmailClassifier.train can do once it has its rows:
\* fit and finish, raise while the features are built, raise in model.fit
FitOutcomes == {"fitted", "features_raise", "fit_raises"}

\* EmailClassifier.train gets as far as building its rows
train_ok(cls, email_data_list) ==
    /\ Len(cls.labeled_examples) >= MinExamples
    /\ Len(labeled_emails(cls, email_data_list)) >= 2

\* EmailClassifier.train returns True
train_succeeds(cls, email_data_list, fit) ==
    train_ok(cls, email_data_list) /\ fit = "fitted"

\* a train that keeps the model_version it finds
train_same_version(cls, email_data_list, fit, v) ==
    IF ~train_ok(cls, email_data_list) \/ fit = "features_raise" THEN cls
    ELSE IF fit = "fit_raises" THEN [cls EXCEPT !.model = UnfittedModel]
    ELSE [cls EXCEPT !.model = v, !.last_trained = v]

\* EmailClassifier.train: the classifier after the call, v the uuid it draws.
\* self.model is assigned the new estimator before model.fit is called.
train(cls, email_data_list, fit, v) ==
    IF ~train_ok(cls, email_data_list) \/ fit = "features_raise" THEN cls
    ELSE IF fit = "fit_raises" THEN [cls EXCEPT !.model = UnfittedModel]
    ELSE [cls EXCEPT !.model = v, !.model_version = v, !.last_trained = v]

\* EmailClassifier.classify: the error it raises, "none" when it runs
classify_error(cls) ==
    IF cls.model = UnfittedModel THEN "AttributeError"
    ELSE IF cls.model = NoModel THEN "ModelNotTrained"
    ELSE IF Len(cls.labeled_examples) < MinExamples THEN "InsufficientData"
    ELSE "none"

\* EmailClassifier.classify: one result per entry of email_data_list, preds the
\* predictions of the fitted model for the entries in order
classify(cls, email_data_list, preds) ==
    IF classify_error(cls) # "none" THEN <<>>
    ELSE [i \in 1..Len(email_data_list) |->
            [email_id |-> email_data_list[i],
             is_important |-> preds[i].is_important,
             confidence |-> preds[i].confidence]]

\* --- EmailClassifier.extract_features_with_labels ---
\* Numbers are in hundredths: 100 stands for 1.0 and 50 for 0.5.
FeatureCount == 15

\* point.vector of a point that has no vector
NoEmbedding == <<>>

RECURSIVE SumSeq(_)
SumSeq(s) == IF s = <<>> THEN 0 ELSE Head(s) + SumSeq(Tail(s))
MaxSeq(s) == CHOOSE x \in Range(s) : \A y \in Range(s) : y <= x
Mean(s) == SumSeq(s) \div Len(s)
Isqrt(n) == CHOOSE r \in 0..n : r * r <= n /\ (r + 1) * (r + 1) > n
Dot(a, b) == SumSeq([i \in DOMAIN a |-> a[i] * b[i]])
Norm(a) == Isqrt(Dot(a, a))

\* sklearn's cosine_similarity of two vectors
cosine_similarity(a, b) == (100 * Dot(a, b)) \div (Norm(a) * Norm(b))

\* np.std: the population standard deviation
Std(s) == Isqrt(Mean([i \in DOMAIN s |-> s[i] * s[i]]) - Mean(s) * Mean(s))

\* "next((ex for ex in self.labeled_examples if ex.email_id == email_id), None)"
label_example(cls, email_id) ==
    LET hits == SelectSeq(cls.labeled_examples, LAMBDA ex : ex.email_id = email_id)
    IN  IF hits = <<>> THEN <<>> ELSE <<Head(hits)>>

\* the embeddings of the reference emails that have one and whose evidence
\* entry carries the label
embeddings_labeled(cls, labeled_email_data, label) ==
    LET kept == SelectSeq(labeled_email_data,
                          LAMBDA d : /\ d.embedding # NoEmbedding
                                     /\ label_example(cls, d.email_id) # <<>>
                                     /\ label_example(cls, d.email_id)[1].is_important
                                           = label)
    IN  [i \in DOMAIN kept |-> kept[i].embedding]

\* the three features of metadata.createdAt
time_features(created_at) ==
    IF created_at.kind # "iso" THEN <<50, 50, 0>>
    ELSE <<IF 9 <= created_at.hour /\ created_at.hour <= 17 THEN 100 ELSE 0,
           IF created_at.weekday >= 5 THEN 100 ELSE 0,
           IF created_at.hour < 8 \/ created_at.hour > 18 THEN 100 ELSE 0>>

\* the list the function builds when it does not return early
features_built(cls, u, email_data, labeled_email_data) ==
    LET email_embedding == email_data.embedding
        sims(label) ==
            LET embs == embeddings_labeled(cls, labeled_email_data, label)
            IN  [i \in DOMAIN embs |-> cosine_similarity(email_embedding, embs[i])]
        important_similarities == sims(TRUE)
        unimportant_similarities == sims(FALSE)
        avg(x) == IF x = <<>> THEN 0 ELSE Mean(x)
        max(x) == IF x = <<>> THEN 0 ELSE MaxSeq(x)
        all_similarities == important_similarities \o unimportant_similarities
        metadata == email_data.metadata
    IN  <<avg(important_similarities), max(important_similarities),
          avg(unimportant_similarities), max(unimportant_similarities),
          avg(important_similarities) - avg(unimportant_similarities)>>
        \o (IF all_similarities # <<>>
            THEN <<Mean(all_similarities), Std(all_similarities),
                   MaxSeq(all_similarities)>>
            ELSE <<0, 0, 0>>)
        \o <<IF email_embedding # NoEmbedding THEN 100 * Norm(email_embedding) ELSE 0>>
        \o time_features(metadata.createdAt)
        \o <<IF metadata.userId = u THEN 100 ELSE 0>>
        \o <<IF metadata.embeddingModel = "text-embedding-3-small" THEN 100 ELSE 0>>

\* an extraction that returns early only for a target without embedding
extract_features_unless_embedded(cls, u, email_data, labeled_email_data) ==
    IF email_data.embedding = NoEmbedding
    THEN [i \in 1..FeatureCount |-> 0]
    ELSE features_built(cls, u, email_data, labeled_email_data)

\* extract_features_with_labels of the classifier cls of user u
extract_features_with_labels(cls, u, email_data, labeled_email_data) ==
    IF email_data.embedding = NoEmbedding \/ labeled_email_data = <<>>
    THEN [i \in 1..FeatureCount |-> 0]
    ELSE features_built(cls, u, email_data, labeled_email_data)

DefaultResult(e) == [email_id |-> e, is_important |-> FALSE, confidence |-> 0]

\* POST /classify: the reply for (u, ids) when the vector store answers (ok)
\* and the model predicts preds
classify_emails(u, ids, ok, preds) ==
    LET known == u \in DOMAIN user_models
        email_data_list == IF known THEN get_emails_by_ids(ids, ok) ELSE <<>>
        runs == known /\ email_data_list # <<>>
        err == IF runs THEN classify_error(user_models[u]) ELSE "none"
        ai_results == IF runs THEN classify(user_models[u], email_data_list, preds)
                      ELSE <<>>
        classified_ids == {ai_results[i].email_id : i \in DOMAIN ai_results}
        missing == SelectSeq(ids, LAMBDA e : e \notin classified_ids)
        defaults == [i \in 1..Len(missing) |-> DefaultResult(missing[i])]
    IN  IF err # "none"
        THEN [status |-> 500, error |-> err, results |-> <<>>, model_version |-> 0]
        ELSE [status |-> 200, error |-> "none",
              results |-> ai_results \o defaults,
              model_version |-> IF known THEN user_models[u].model_version ELSE 0]

\* every reply POST /classify can give for (u, ids) in the current state
ClassifyReplies(u, ids) ==
    {classify_emails(u, ids, ok, preds) :
        ok \in BOOLEAN, preds \in [1..Len(ids) -> Predictions]}

\* GET /stats/{user_id}
get_model_stats(u) ==
    IF u \notin DOMAIN user_models
    THEN [status |-> 404, total_examples |-> 0]
    ELSE [status |-> 200, total_examples |-> Len(user_models[u].labeled_examples)]


(***************************************************************************)
(* Service endpoints (email_classifier_service.py). No handler suspends:   *)
(* the store clients are synchronous, so each request runs to its end.     *)
(***************************************************************************)
\* a threshold above the evidence a classifier collects
LateThreshold == MaxEvidence + 1
RetrainThreshold == 10

Ids(examples) == [i \in DOMAIN examples |-> examples[i].email_id]

Reply(op, u, ids, status, error, res, version) ==
    [op |-> op, user |-> u, ids |-> ids, status |-> status, error |-> error,
     results |-> res, model_version |-> version]

\* what can go wrong inside one request: the hydration's reads, the fit, the
\* save that follows the added evidence, the save that follows the training
Faults == [read_ok : BOOLEAN, fit : FitOutcomes,
           save_added : SaveOutcomes, save_trained : SaveOutcomes]
NoFaults == [read_ok |-> TRUE, fit |-> "fitted",
             save_added |-> "saved", save_trained |-> "saved"]

\* uuids get_or_create_classifier draws and keeps: the one of a constructed
\* instance, unless metadata.json replaces it
CreateDrawsKept(u, read_ok) ==
    IF u \in DOMAIN user_models THEN 0
    ELSE IF u \in DOMAIN disk /\ read_ok /\ disk[u].metadata # <<>> THEN 0
    ELSE 1

\* the time of a save_to_disk, on the clock of the uuids: v is the next uuid
Clock(v) == v - 1

\* POST /train: the classifier, the directories and the status code it ends with
train_request(u, examples, retrain, ok, f) ==
    LET v == uuid_next + CreateDrawsKept(u, f.read_ok)
        cls0 == get_or_create_classifier(u, f.read_ok)
        cls1 == IF retrain THEN [cls0 EXCEPT !.labeled_examples = <<>>] ELSE cls0
        cls2 == add_training_examples(cls1, examples)
        disk2 == save_to_disk(disk, u, cls2, f.save_added, Clock(v))
        email_data_list == get_emails_by_ids(Ids(examples), ok)
        found == email_data_list # <<>>
        trained == found /\ train_succeeds(cls2, email_data_list, f.fit)
        cls3 == IF found THEN train(cls2, email_data_list, f.fit, v) ELSE cls2
    IN  [cls |-> cls3,
         disk |-> IF trained THEN save_to_disk(disk2, u, cls3, f.save_trained, v)
                  ELSE disk2,
         trained |-> trained,
         saved |-> <<save_ok(cls2, f.save_added)>>
                   \o (IF trained THEN <<save_ok(cls3, f.save_trained)>> ELSE <<>>),
         status |-> IF ~found THEN 404 ELSE IF ~trained THEN 400 ELSE 200]

\* the state change of a request that went through get_or_create_classifier
\* and ended with the outcome r
Commit(u, r, draws) ==
    /\ user_models' = SetModel(user_models, u, r.cls)
    /\ disk' = r.disk
    /\ uuid_next' = uuid_next + draws + (IF r.trained THEN 1 ELSE 0)
    /\ train_succeeded' = IF r.trained THEN train_succeeded \cup {u}
                           ELSE train_succeeded
    /\ UNCHANGED <<points, gt, sqlite_client, proc, tracker, loop_vars, sched_vars, sched_hist>>

\* POST /train
train_classifier(u, examples, retrain, ok, f) ==
    Commit(u, train_request(u, examples, retrain, ok, f),
           CreateDrawsKept(u, f.read_ok))

\* add_training_examples, then the retraining "if we have enough examples" of
\* POST /label, /bulk-label and /feedback, on the classifier cls0 of u; v is the
\* next uuid
add_and_retrain(u, cls0, examples, ok, f, v) ==
    LET cls1 == add_training_examples(cls0, examples)
        disk1 == save_to_disk(disk, u, cls1, f.save_added, Clock(v))
        retrains == Len(cls1.labeled_examples) >= RetrainThreshold
        email_data_list == IF retrains
                           THEN get_emails_by_ids(Ids(cls1.labeled_examples), ok)
                           ELSE <<>>
        found == email_data_list # <<>>
        trained == found /\ train_succeeds(cls1, email_data_list, f.fit)
        cls2 == IF found THEN train(cls1, email_data_list, f.fit, v) ELSE cls1
    IN  [cls |-> cls2,
         disk |-> IF trained THEN save_to_disk(disk1, u, cls2, f.save_trained, v)
                  ELSE disk1,
         trained |-> trained,
         saved |-> <<save_ok(cls1, f.save_added)>>
                   \o (IF trained THEN <<save_ok(cls2, f.save_trained)>> ELSE <<>>),
         status |-> 200]

\* POST /label: the outcome
label_request(u, examples, ok, f) ==
    add_and_retrain(u, get_or_create_classifier(u, f.read_ok), examples, ok, f,
                    uuid_next + CreateDrawsKept(u, f.read_ok))

\* POST /label
label_emails(u, examples, ok, f) ==
    Commit(u, label_request(u, examples, ok, f), CreateDrawsKept(u, f.read_ok))

\* POST /bulk-label: the examples it builds, the important ids first
bulk_examples(important_email_ids, unimportant_email_ids) ==
    [i \in DOMAIN important_email_ids |->
        [email_id |-> important_email_ids[i], is_important |-> TRUE]]
    \o [i \in DOMAIN unimportant_email_ids |->
        [email_id |-> unimportant_email_ids[i], is_important |-> FALSE]]

\* POST /bulk-label
bulk_label_emails(u, important_email_ids, unimportant_email_ids, ok, f) ==
    Commit(u, label_request(u, bulk_examples(important_email_ids,
                                             unimportant_email_ids), ok, f),
           CreateDrawsKept(u, f.read_ok))

\* a feedback that adds the example also when the labels agree
feedback_request_always(u, e, actual_label, predicted_label, ok, f) ==
    IF u \notin DOMAIN user_models
    THEN [cls |-> EmailClassifier(0), disk |-> disk, trained |-> FALSE,
          saved |-> <<>>, status |-> 404]
    ELSE add_and_retrain(u, user_models[u],
                         <<[email_id |-> e, is_important |-> actual_label]>>,
                         ok, f, uuid_next)

\* POST /feedback: the outcome; the request is refused when the registry has
\* no classifier for u, and adds an example only when the labels differ
feedback_request(u, e, actual_label, predicted_label, ok, f) ==
    IF u \notin DOMAIN user_models
    THEN [cls |-> EmailClassifier(0), disk |-> disk, trained |-> FALSE,
          saved |-> <<>>, status |-> 404]
    ELSE IF actual_label = predicted_label
    THEN [cls |-> user_models[u], disk |-> disk, trained |-> FALSE,
          saved |-> <<>>, status |-> 200]
    ELSE add_and_retrain(u, user_models[u],
                         <<[email_id |-> e, is_important |-> actual_label]>>,
                         ok, f, uuid_next)

\* POST /feedback
submit_feedback(u, e, actual_label, predicted_label, ok, f) ==
    LET r == feedback_request(u, e, actual_label, predicted_label, ok, f)
    IN  IF r.status = 404
        THEN UNCHANGED <<points, gt, svc_vars, sqlite_client, proc, tracker, loop_vars, sched_vars,
                         hist_vars>>
        ELSE Commit(u, r, 0)

\* a lookup that goes through get_or_create_classifier
registry_created(u) ==
    SetModel(user_models, u, get_or_create_classifier(u, TRUE))

\* the registry after classify_emails and get_model_stats looked the user up:
\* both test "user_id in user_models" on the plain dict and index it only
\* when the key is there
registry_looked_up(u) == user_models

\* POST /classify, called directly
classify_request(u, ids) ==
    \E reply \in ClassifyReplies(u, ids) :
        /\ response' = Reply("classify", u, ids, reply.status, reply.error,
                             reply.results, reply.model_version)
        /\ user_models' = registry_looked_up(u)
        /\ UNCHANGED <<request, points, gt, disk, uuid_next, sqlite_client, proc, tracker,
                       loop_vars, sched_vars, hist_vars>>

\* GET /stats/{user_id}, called directly: 404 for a user without classifier,
\* else the counts and the version of the registry's classifier
stats_request(u) ==
    /\ response' = [op |-> "stats", user |-> u,
                    status |-> get_model_stats(u).status,
                    total_examples |-> get_model_stats(u).total_examples,
                    model_version |-> IF u \in DOMAIN user_models
                                      THEN user_models[u].model_version ELSE 0,
                    last_trained |-> IF u \in DOMAIN user_models
                                     THEN user_models[u].last_trained ELSE 0]
    /\ user_models' = registry_looked_up(u)
    /\ UNCHANGED <<request, points, gt, disk, uuid_next, sqlite_client, proc, tracker,
                   loop_vars, sched_vars, hist_vars>>

\* EmailClassifier.classify called on the registry's classifier of u
classify_call(u, targets) ==
    /\ u \in DOMAIN user_models
    /\ \E preds \in [1..Len(targets) -> Predictions] :
          response' = Reply("classify_call", u, targets, 0,
                            classify_error(user_models[u]),
                            classify(user_models[u], targets, preds),
                            user_models[u].model_version)
    /\ UNCHANGED <<request, points, gt, svc_vars, sqlite_client, proc, tracker, loop_vars,
                   sched_vars,
                   hist_vars>>

\* "del user_models[user_id]" takes the classifier of u out of the registry;
\* a suspended handler that looked it up goes on with the object it holds
Unregistered(u) ==
    [t \in DOMAIN tasks |->
        IF tasks[t].user = u /\ tasks[t].held = <<>> /\ u \in DOMAIN user_models
        THEN [tasks[t] EXCEPT !.held = <<user_models[u]>>]
        ELSE tasks[t]]

\* the files of a user directory
Artifacts == {"examples", "model", "metadata"}

\* what shutil.rmtree does to a directory: it removes it, or it raises and
\* leaves the directory with the files it had not yet removed
RmOutcomes ==
    {[ok |-> TRUE, left |-> {}]} \cup {[ok |-> FALSE, left |-> l] : l \in SUBSET Artifacts}
Removed == [ok |-> TRUE, left |-> {}]

\* POST /reset/{user_id}: the registry entry is deleted, then the directory is
\* removed if it exists; when shutil.rmtree raises the handler logs it and
\* replies reset_successful all the same
reset_user_model(u, rm) ==
    /\ user_models' = [x \in DOMAIN user_models \ {u} |-> user_models[x]]
    /\ disk' = IF u \notin DOMAIN disk THEN disk
               ELSE IF rm.ok THEN [x \in DOMAIN disk \ {u} |-> disk[x]]
               ELSE [disk EXCEPT ![u] = [a \in Artifacts |->
                                           IF a \in rm.left THEN @[a] ELSE <<>>]]
    /\ train_succeeded' = train_succeeded \ {u}
    /\ tasks' = Unregistered(u)
    /\ UNCHANGED <<points, gt, uuid_next, response, sqlite_client, proc, tracker, running,
                   sched_vars, sched_hist>>

\* the order in which os.listdir gives the user directories
UserOrder == <<"u1", "u2">>

\* a startup that gives up at the first directory it fails to read
load_all_aborts(read_ok) ==
    LET first_bad(i) == \A j \in 1..(i - 1) :
                           UserOrder[j] \in DOMAIN disk => read_ok[UserOrder[j]]
        loaded == [u \in {x \in DOMAIN disk :
                            /\ read_ok[x]
                            /\ first_bad(CHOOSE i \in DOMAIN UserOrder :
                                             UserOrder[i] = x)} |->
                     load_from_disk(disk, u, uuid_next, TRUE)]
    IN  /\ user_models' = loaded
        /\ uuid_next' = uuid_next + Cardinality({u \in DOMAIN loaded :
                                                    disk[u].metadata = <<>>})
        /\ train_succeeded' = {u \in train_succeeded \cap DOMAIN loaded :
                                  loaded[u].model # NoModel}
        /\ tasks' = <<>> /\ running' = {}
        /\ UNCHANGED <<points, gt, disk, response, sqlite_client, proc, tracker, sched_vars,
                       sched_hist>>

\* the service process ends and a new one starts: startup runs
\* load_all_user_models on an empty registry. read_ok[u] = FALSE when a read of
\* the directory of u raises.
load_all_user_models(read_ok) ==
    LET keeps(u) == ~read_ok[u] \/ disk[u].metadata = <<>>
        \* the uuid of the instance constructed for the i-th directory
        v(i) == uuid_next
                + Cardinality({j \in 1..(i - 1) : /\ UserOrder[j] \in DOMAIN disk
                                                   /\ keeps(UserOrder[j])})
        loaded == [u \in DOMAIN disk |->
                     LET i == CHOOSE i \in DOMAIN UserOrder : UserOrder[i] = u
                     IN  load_from_disk(disk, u, v(i), read_ok[u])]
        draws == Cardinality({u \in DOMAIN disk : keeps(u)})
    IN  /\ user_models' = loaded
        /\ uuid_next' = uuid_next + draws
        /\ train_succeeded' = {u \in train_succeeded \cap DOMAIN loaded :
                                  loaded[u].model # NoModel}
        /\ tasks' = <<>> /\ running' = {}
        /\ UNCHANGED <<points, gt, disk, response, sqlite_client, proc, tracker, sched_vars,
                       sched_hist>>

(***************************************************************************)
(* The handlers as the event loop runs them (uvicorn.run(app): one process *)
(* with one loop). A handler runs from one await that suspends to the      *)
(* next; between two such points no other request is served.               *)
(***************************************************************************)
\* an await of get_emails_by_ids that hands the loop to the other requests
get_emails_by_ids_yields == TRUE

\* "await vector_store_client.get_emails_by_ids(...)": the coroutine calls the
\* synchronous Qdrant client (self.client.scroll) and awaits nothing, so it
\* runs to its end without handing the loop back. EmailClassifier.train and
\* EmailClassifier.classify await nothing either.
get_emails_by_ids_suspends == FALSE

Slots == 1..MaxTasks

\* the local variables of a handler at an await: the classifier it looked up
\* is the registry's (held = <<>>) or an object no longer registered
\* (held = <<object>>); seen is that classifier as the handler first saw it
Task(op, u, at, ids, seen) ==
    [op |-> op, user |-> u, pc |-> at, ids |-> ids, held |-> <<>>, seen |-> seen,
     email_data_list |-> <<>>, labeled_email_ids |-> <<>>]

\* the classifier object the handler t holds
Obj(t) ==
    IF tasks[t].held = <<>> THEN user_models[tasks[t].user] ELSE tasks[t].held[1]

\* the loop is free to start a handler; the handler t may go on
Idle == running = {}
CanResume(t) == t \in DOMAIN tasks /\ (running = {t} \/ running = {})
\* who holds the loop after t awaited get_emails_by_ids
Awaiting(t) == IF get_emails_by_ids_suspends THEN {} ELSE {t}

With(t, task) == [x \in DOMAIN tasks \cup {t} |-> IF x = t THEN task ELSE tasks[x]]
Without(t) == [x \in DOMAIN tasks \ {t} |-> tasks[x]]

\* history of the last handler that replied: for a training, rows are the
\* evidence entries the model was fitted on, seen the classifier when train
\* started and now the classifier when it returned; for a classification,
\* rows are the evidence ids the reference set was fetched for, seen the
\* classifier the handler looked up and now the classifier it predicted with
Handled(op, u, status, trained, rows, seen, now) ==
    [op |-> op, user |-> u, status |-> status, trained |-> trained,
     saved |-> <<>>, rows |-> rows, seen |-> seen, now |-> now]

\* rows taken from the evidence as the request found it
train_rows_at_request(t, email_data_list) ==
    labeled_emails(tasks[t].seen, email_data_list)

\* EmailClassifier.train: labeled_emails and labels, built from
\* self.labeled_examples when train starts
train_rows(t, email_data_list) == labeled_emails(Obj(t), email_data_list)

\* POST /train and POST /label up to their await of get_emails_by_ids:
\* get_or_create_classifier, add_training_examples with its save. /label
\* replies at once below the retrain threshold.
add_evidence(t, op, u, examples, retrain) ==
    LET draws == CreateDrawsKept(u, TRUE)
        cls0 == get_or_create_classifier(u, TRUE)
        cls1 == IF retrain THEN [cls0 EXCEPT !.labeled_examples = <<>>] ELSE cls0
        cls2 == add_training_examples(cls1, examples)
        fetches == op = "train" \/ Len(cls2.labeled_examples) >= RetrainThreshold
        ids == IF op = "train" THEN Ids(examples) ELSE Ids(cls2.labeled_examples)
    IN  /\ Idle /\ t \notin DOMAIN tasks
        /\ user_models' = SetModel(user_models, u, cls2)
        /\ disk' = save_to_disk(disk, u, cls2, "saved", Clock(uuid_next + draws))
        /\ uuid_next' = uuid_next + draws
        /\ IF fetches
           THEN /\ tasks' = With(t, Task(op, u, "fetched", ids, cls0))
                /\ running' = Awaiting(t)
                /\ UNCHANGED request
           ELSE /\ request' = Handled(op, u, 200, FALSE, <<>>, cls0, cls2)
                /\ UNCHANGED <<tasks, running>>
        /\ UNCHANGED <<points, gt, response, sqlite_client, proc, tracker, sched_vars, hist_vars>>

\* POST /train and POST /label from the await on: the 404 of /train, then
\* EmailClassifier.train on the classifier the handler holds, which saves
\* under the user's directory, then the reply
train_and_reply(t) ==
    LET task == tasks[t]
        u == task.user
        cls == Obj(t)
        email_data_list == get_emails_by_ids(task.ids, TRUE)
        found == email_data_list # <<>>
        trained == found /\ train_succeeds(cls, email_data_list, "fitted")
        cls3 == IF found THEN train(cls, email_data_list, "fitted", uuid_next)
                ELSE cls
        status == IF task.op # "train" THEN 200
                  ELSE IF ~found THEN 404 ELSE IF ~trained THEN 400 ELSE 200
    IN  /\ CanResume(t) /\ task.pc = "fetched"
        /\ user_models' = IF task.held = <<>> THEN SetModel(user_models, u, cls3)
                          ELSE user_models
        /\ disk' = IF trained THEN save_to_disk(disk, u, cls3, "saved", uuid_next)
                   ELSE disk
        /\ uuid_next' = uuid_next + (IF trained THEN 1 ELSE 0)
        /\ train_succeeded' = IF trained /\ task.held = <<>>
                               THEN train_succeeded \cup {u} ELSE train_succeeded
        /\ request' = Handled(task.op, u, status, trained,
                              IF trained THEN train_rows(t, email_data_list) ELSE <<>>,
                              cls, cls3)
        /\ tasks' = Without(t)
        /\ running' = {}
        /\ UNCHANGED <<points, gt, response, sqlite_client, proc, tracker, sched_vars, sched_hist>>

\* POST /classify up to its first await: the lookup of the classifier; a user
\* without classifier gets the default results at once
classify_lookup(t, u, ids) ==
    /\ Idle /\ t \notin DOMAIN tasks
    /\ IF u \in DOMAIN user_models
       THEN /\ tasks' = With(t, Task("classify", u, "targets", ids, user_models[u]))
            /\ running' = Awaiting(t)
            /\ UNCHANGED <<response, request>>
       ELSE /\ response' = Reply("classify", u, ids, 200, "none",
                                 [i \in 1..Len(ids) |-> DefaultResult(ids[i])], 0)
            /\ request' = Handled("classify", u, 200, FALSE, <<>>, <<>>, <<>>)
            /\ UNCHANGED <<tasks, running>>
    /\ UNCHANGED <<points, gt, svc_vars, sqlite_client, proc, tracker, sched_vars, hist_vars>>

\* the model_version of the reply: the registry is looked up again
reply_version(u) ==
    IF u \in DOMAIN user_models THEN user_models[u].model_version ELSE 0

\* POST /classify between its two awaits: with the emails to classify at hand
\* the handler reads the evidence ids of its classifier and fetches them;
\* without emails it replies the default results
classify_reference(t) ==
    LET task == tasks[t]
        email_data_list == get_emails_by_ids(task.ids, TRUE)
    IN  /\ CanResume(t) /\ task.pc = "targets"
        /\ IF email_data_list # <<>>
           THEN /\ tasks' = With(t, [task EXCEPT
                                       !.pc = "reference",
                                       !.email_data_list = email_data_list,
                                       !.labeled_email_ids =
                                           Ids(Obj(t).labeled_examples)])
                /\ running' = Awaiting(t)
                /\ UNCHANGED <<response, request>>
           ELSE /\ response' = Reply("classify", task.user, task.ids, 200, "none",
                                     [i \in 1..Len(task.ids) |->
                                         DefaultResult(task.ids[i])],
                                     reply_version(task.user))
                /\ request' = Handled("classify", task.user, 200, FALSE, <<>>,
                                      task.seen, Obj(t))
                /\ tasks' = Without(t)
                /\ running' = {}
        /\ UNCHANGED <<points, gt, svc_vars, sqlite_client, proc, tracker, sched_vars, hist_vars>>

\* POST /classify from its second await on: EmailClassifier.classify with the
\* reference set fetched, the default results, the reply
classify_and_reply(t, preds) ==
    LET task == tasks[t]
        cls == Obj(t)
        err == classify_error(cls)
        ai_results == classify(cls, task.email_data_list, preds)
        classified_ids == {ai_results[i].email_id : i \in DOMAIN ai_results}
        missing == SelectSeq(task.ids, LAMBDA e : e \notin classified_ids)
        defaults == [i \in 1..Len(missing) |-> DefaultResult(missing[i])]
    IN  /\ CanResume(t) /\ task.pc = "reference"
        /\ response' = IF err # "none"
                       THEN Reply("classify", task.user, task.ids, 500, err, <<>>, 0)
                       ELSE Reply("classify", task.user, task.ids, 200, "none",
                                  ai_results \o defaults, reply_version(task.user))
        /\ request' = Handled("classify", task.user, IF err # "none" THEN 500 ELSE 200,
                              FALSE, task.labeled_email_ids, task.seen, cls)
        /\ tasks' = Without(t)
        /\ running' = {}
        /\ UNCHANGED <<points, gt, svc_vars, sqlite_client, proc, tracker, sched_vars, hist_vars>>

(***************************************************************************)
(* ProcessedEmailsTracker (persistence_manager.py). The class takes no     *)
(* lock; a thread can be switched out between any two of its statements.   *)
(***************************************************************************)
Threads == {"t1", "t2"}

\* a thread outside the tracker's methods
Returned == [pc |-> "idle", email_id |-> None, snapshot |-> {}]

\* ProcessedEmailsTracker.__init__ with no processed_emails.json on disk
NewTracker ==
    [processed_emails |-> {}, dirty |-> FALSE, file |-> {},
     th |-> [t \in Threads |-> Returned]]

At(t, pc_) == tracker.th[t].pc = pc_
Goto(t, pc_) == [tracker EXCEPT !.th[t].pc = pc_]
TrackerOnly ==
    UNCHANGED <<points, gt, svc_vars, replies, sqlite_client, proc, loop_vars,
                sched_vars, hist_vars>>

\* add_processed_email: "if email_id not in self.processed_emails"
add_test(t, e) ==
    /\ At(t, "idle")
    /\ e \notin tracker.processed_emails
    /\ tracker' = [tracker EXCEPT !.th[t] = [pc |-> "add", email_id |-> e,
                                             snapshot |-> {}]]
    /\ TrackerOnly

\* "self.processed_emails.add(email_id)"
add_insert(t) ==
    /\ At(t, "add")
    /\ tracker' = [tracker EXCEPT !.processed_emails = @ \cup {tracker.th[t].email_id},
                                  !.th[t].pc = "mark"]
    /\ TrackerOnly

\* "self.dirty = True", then the auto-save when its interval has passed
add_mark(t) ==
    /\ At(t, "mark")
    /\ \E interval_passed \in BOOLEAN :
          tracker' = [tracker EXCEPT !.dirty = TRUE,
                                     !.th[t] = IF interval_passed
                                               THEN [@ EXCEPT !.pc = "save"]
                                               ELSE Returned]
    /\ TrackerOnly

\* a thread calls save
save_call(t) ==
    /\ At(t, "idle")
    /\ tracker' = Goto(t, "save")
    /\ TrackerOnly

\* save: "if self.dirty"
save_test(t) ==
    /\ At(t, "save")
    /\ tracker' = IF tracker.dirty THEN Goto(t, "dump")
                  ELSE [tracker EXCEPT !.th[t] = Returned]
    /\ TrackerOnly

\* save_processed_emails: "list(processed_emails)"
save_list(t) ==
    /\ At(t, "dump")
    /\ tracker' = [tracker EXCEPT !.th[t].snapshot = tracker.processed_emails,
                                  !.th[t].pc = "write"]
    /\ TrackerOnly

\* save_processed_emails: the file is written, or the write raises and save
\* returns False
save_write(t) ==
    /\ At(t, "write")
    /\ \E ok \in BOOLEAN :
          tracker' = IF ok
                     THEN [tracker EXCEPT !.file = tracker.th[t].snapshot,
                                          !.th[t].pc = "clear"]
                     ELSE [tracker EXCEPT !.th[t] = Returned]
    /\ TrackerOnly

\* save: "self.dirty = False"
save_clear(t) ==
    /\ At(t, "clear")
    /\ tracker' = [tracker EXCEPT !.dirty = FALSE, !.th[t] = Returned]
    /\ TrackerOnly

(***************************************************************************)
(* The stores' other writers                                               *)
(***************************************************************************)
Row(importance, confidence, user_labeled) ==
    [importance |-> importance, importance_confidence |-> confidence,
     user_labeled |-> user_labeled]

\* the embedding pipeline stores a point. The scheduler reads the collection
\* only in the scroll that starts a cycle, so points stored during a cycle are
\* seen like points stored right after it.
EmbedEmail(p) ==
    /\ pc = "idle"
    /\ Len(points) < MaxPoints
    /\ points' = Append(points, p)
    /\ UNCHANGED <<gt, svc_vars, replies, sqlite_client, proc, tracker, loop_vars, sched_vars, hist_vars>>

\* the mail application records a user's label in the emails table
HumanLabel(e, importance) ==
    /\ e \in DOMAIN gt
    /\ gt[e] # Row(importance, 100, TRUE)
    /\ gt' = [gt EXCEPT ![e] = Row(importance, 100, TRUE)]
    /\ UNCHANGED <<points, svc_vars, replies, sqlite_client, proc, tracker, loop_vars, sched_vars, hist_vars>>


(***************************************************************************)
(* IncrementalEmailClassifier (incremental_classifier.py)                  *)
(***************************************************************************)
ScrollLimit == 10000

\* is_email_classified: dbok = FALSE when the SELECT raises
is_email_classified(e, dbok) ==
    IF ~sqlite_client THEN FALSE
    ELSE IF ~dbok THEN FALSE
    ELSE e \in DOMAIN gt /\ gt[e].importance # "unclassified"

\* an update that leaves user_labeled set
update_email_importance_flagged(e, is_important, confidence, dbok) ==
    IF ~sqlite_client \/ ~dbok \/ e \notin DOMAIN gt THEN gt
    ELSE [gt EXCEPT ![e] = Row(IF is_important THEN "important" ELSE "not_important",
                               confidence, TRUE)]

\* an update that writes nothing
update_email_importance_skipped(e, is_important, confidence, dbok) == gt

\* the emails table after update_email_importance; dbok = FALSE when the
\* UPDATE raises
update_email_importance(e, is_important, confidence, dbok) ==
    IF ~sqlite_client \/ ~dbok \/ e \notin DOMAIN gt THEN gt
    ELSE [gt EXCEPT ![e] = Row(IF is_important THEN "important" ELSE "not_important",
                               confidence, FALSE)]

\* update_email_importance executes its UPDATE
update_executes(dbok) == sqlite_client /\ dbok

\* a readiness test that accepts a single example
user_has_trained_model_one(u, http_ok) ==
    IF ~http_ok THEN FALSE
    ELSE IF get_model_stats(u).status = 200
         THEN get_model_stats(u).total_examples >= 1
         ELSE FALSE

\* user_has_trained_model: http_ok = FALSE when the GET raises
user_has_trained_model(u, http_ok) ==
    IF ~http_ok THEN FALSE
    ELSE IF get_model_stats(u).status = 200
         THEN get_model_stats(u).total_examples >= 2
         ELSE FALSE

\* what classify_email_batch can return for a batch: the results of a 200 reply,
\* [] for a 200 reply without results, None for any other reply or an exception
\* (a timeout included). None is given as <<>>: process_user_emails tests
\* "if results" and treats both alike.
classify_email_batch(u, ids) ==
    {IF reply.status = 200 THEN reply.results ELSE <<>> :
        reply \in ClassifyReplies(u, ids)} \cup {<<>>}

\* unclassified_by_user[user_id].append(email_id), a new key going last
dict_append(d, u, e) ==
    IF \E i \in DOMAIN d : d[i].user_id = u
    THEN [i \in DOMAIN d |->
            IF d[i].user_id = u
            THEN [d[i] EXCEPT !.email_ids = Append(@, e)]
            ELSE d[i]]
    ELSE Append(d, [user_id |-> u, email_ids |-> <<e>>])

\* the history of a cycle is dropped when the cycle ends
CycleHist(next_pc) ==
    IF next_pc = "idle"
    THEN seen_labeled' = {} /\ found_ready' = {} /\ processed_at_start' = {}
    ELSE UNCHANGED <<seen_labeled, found_ready, processed_at_start>>

\* the clients the scheduler holds
Adapters == {"qdrant", "sqlite", "http"}

\* main after a successful initialize, in continuous mode or with --once
Running(once, clients) ==
    [at |-> "running", once |-> once, cycled |-> FALSE, open |-> clients,
     opened |-> clients, cleanup_ran |-> FALSE, how |-> "none"]

\* run_once has called its one run_classification_cycle
Cycled == IF proc.once THEN [proc EXCEPT !.cycled = TRUE] ELSE proc

\* run_classification_cycle starts: get_unclassified_emails makes its one
\* scroll request, for at most limit points, and drops the offset of the next
\* page that comes back with them ("points, _ = scroll_result"). When the
\* scroll raises, get_unclassified_emails returns {} and the cycle ends.
scroll_cycle(limit) ==
    /\ pc = "idle"
    /\ \E ok \in BOOLEAN :
          IF ok
          THEN /\ scan_points' = Take(points, limit)
               /\ pc' = "scanning"
               /\ processed_at_start' = processed_emails
          ELSE UNCHANGED <<scan_points, pc, processed_at_start>>
    /\ proc' = Cycled
    /\ UNCHANGED <<points, gt, svc_vars, replies, sqlite_client, tracker, loop_vars,
                   processed_emails,
                   unclassified_by_user, email_ids, results, written, rewritten,
                   unready_marked, failed_ids, seen_labeled, found_ready, train_succeeded>>

\* the scroll as the scheduler makes it, limit=10000
run_classification_cycle == scroll_cycle(ScrollLimit)

\* a scan that forgets what it processed
already_processed_never(e) == FALSE

\* "if email_id in self.processed_emails: continue"
already_processed(e) == e \in processed_emails

\* the registry holds a classifier of u with a fitted model and the two
\* evidence entries the readiness check and classify ask for
TrainedAndReady(u) ==
    /\ u \in DOMAIN user_models
    /\ user_models[u].model \notin {NoModel, UnfittedModel}
    /\ Len(user_models[u].labeled_examples) >= MinExamples

\* get_unclassified_emails: one turn of the loop over the points
scan_point ==
    /\ pc = "scanning"
    /\ scan_points # <<>>
    /\ LET email_id == Head(scan_points).emailId
           user_id == Head(scan_points).userId
           labeled == email_id \in DOMAIN gt /\ gt[email_id].importance # "unclassified"
       IN  /\ scan_points' = Tail(scan_points)
           /\ IF email_id = None \/ user_id = None
              THEN UNCHANGED <<processed_emails, unclassified_by_user, seen_labeled, found_ready>>
              ELSE IF already_processed(email_id)
              THEN UNCHANGED <<processed_emails, unclassified_by_user, seen_labeled, found_ready>>
              ELSE \E dbok \in BOOLEAN :
                     /\ seen_labeled' = IF labeled THEN seen_labeled \cup {email_id}
                                        ELSE seen_labeled
                     /\ found_ready' = IF ~labeled /\ email_id \in DOMAIN gt
                                           /\ ~is_email_classified(email_id, dbok)
                                           /\ TrainedAndReady(user_id)
                                        THEN found_ready \cup {email_id}
                                        ELSE found_ready
                     /\ IF is_email_classified(email_id, dbok)
                        THEN /\ processed_emails' = processed_emails \cup {email_id}
                             /\ UNCHANGED unclassified_by_user
                        ELSE /\ unclassified_by_user' =
                                    dict_append(unclassified_by_user, user_id, email_id)
                             /\ UNCHANGED processed_emails
    /\ UNCHANGED <<points, gt, svc_vars, replies, sqlite_client, proc, tracker, loop_vars, pc,
                   email_ids,
                   results, written, rewritten, unready_marked, failed_ids,
                   processed_at_start, train_succeeded>>

\* get_unclassified_emails returns; run_classification_cycle ends when the
\* dict is empty and turns to its first user otherwise
end_scan ==
    /\ pc = "scanning"
    /\ scan_points = <<>>
    /\ pc' = IF unclassified_by_user = <<>> THEN "idle" ELSE "check_ready"
    /\ CycleHist(pc')
    /\ UNCHANGED <<points, gt, svc_vars, replies, sqlite_client, proc, tracker, loop_vars,
                   processed_emails,
                   scan_points, unclassified_by_user, email_ids, results, written,
                   rewritten, unready_marked, failed_ids, train_succeeded>>

\* the user and the ids process_user_emails was called with
CurrentUser == Head(unclassified_by_user).user_id
CurrentIds == Head(unclassified_by_user).email_ids

\* run_classification_cycle turns to the next user, or ends
NextUser ==
    /\ unclassified_by_user' = Tail(unclassified_by_user)
    /\ pc' = IF Len(unclassified_by_user) > 1 THEN "check_ready" ELSE "idle"
    /\ CycleHist(pc')

\* process_user_emails up to its loop: the readiness check
check_ready ==
    /\ pc = "check_ready"
    /\ \E http_ok \in BOOLEAN :
          IF user_has_trained_model(CurrentUser, http_ok)
          THEN /\ email_ids' = CurrentIds
               /\ pc' = "submitting"
               /\ UNCHANGED <<processed_emails, unclassified_by_user,
                              unready_marked, seen_labeled, found_ready, processed_at_start>>
          ELSE /\ processed_emails' = processed_emails \cup Range(CurrentIds)
               /\ unready_marked' = unready_marked \cup Range(CurrentIds)
               /\ NextUser
               /\ UNCHANGED email_ids
    /\ UNCHANGED <<points, gt, svc_vars, replies, sqlite_client, proc, tracker, loop_vars,
                   scan_points,
                   results, written, rewritten, failed_ids, train_succeeded>>

\* a slice that takes one id more than the batch size
batch_oversized == Take(email_ids, batch_size + 1)

\* batch = email_ids[i:i + batch_size], email_ids holding the ids from i on
batch == Take(email_ids, batch_size)

\* process_user_emails: the loop goes to the next batch, or returns
AfterBatch ==
    IF Len(email_ids) > batch_size
    THEN /\ email_ids' = Drop(email_ids, batch_size)
         /\ pc' = "submitting"
         /\ UNCHANGED <<unclassified_by_user, seen_labeled, found_ready, processed_at_start>>
    ELSE /\ email_ids' = <<>>
         /\ NextUser

\* a loop that leaves a failed batch unmarked
failed_batch_unmarked == processed_emails

\* "Still mark as processed to avoid infinite retries"
failed_batch_processed == processed_emails \cup Range(batch)

\* process_user_emails: the next batch is classified; without results it is
\* marked processed at once
submit_batch ==
    /\ pc = "submitting"
    /\ \E res \in classify_email_batch(CurrentUser, batch) :
          IF res # <<>>
          THEN /\ results' = res
               /\ pc' = "reconciling"
               /\ UNCHANGED <<processed_emails, email_ids, unclassified_by_user,
                              failed_ids, seen_labeled, found_ready, processed_at_start>>
          ELSE /\ processed_emails' = failed_batch_processed
               /\ failed_ids' = failed_ids \cup Range(batch)
               /\ results' = <<>>
               /\ AfterBatch
    /\ UNCHANGED <<points, gt, svc_vars, replies, sqlite_client, proc, tracker, loop_vars,
                   scan_points,
                   written, rewritten, unready_marked, train_succeeded>>

\* process_user_emails: one result is written; after the last one the batch is
\* marked processed
write_result ==
    /\ pc = "reconciling"
    /\ results # <<>>
    /\ LET r == Head(results)
       IN  \E dbok \in BOOLEAN :
             /\ gt' = update_email_importance(r.email_id, r.is_important,
                                              r.confidence, dbok)
             /\ written' = IF update_executes(dbok) THEN written \cup {r.email_id}
                           ELSE written
             /\ rewritten' = IF update_executes(dbok) /\ r.email_id \in written
                             THEN rewritten \cup {r.email_id}
                             ELSE rewritten
    /\ results' = Tail(results)
    /\ IF Tail(results) = <<>>
       THEN /\ processed_emails' = processed_emails \cup Range(batch)
            /\ AfterBatch
       ELSE UNCHANGED <<processed_emails, email_ids, unclassified_by_user, pc,
                        seen_labeled, found_ready, processed_at_start>>
    /\ UNCHANGED <<points, svc_vars, replies, sqlite_client, proc, tracker, loop_vars, scan_points,
                   unready_marked, failed_ids, train_succeeded>>

(***************************************************************************)
(* main (incremental_classifier.py, run_classifier.py)                     *)
(***************************************************************************)
\* main before initialize: __init__ set the three clients to None
Created ==
    [at |-> "created", once |-> FALSE, cycled |-> FALSE, open |-> {},
     opened |-> {}, cleanup_ran |-> FALSE, how |-> "none"]

\* initialize: it returns True, or something raises before the Qdrant client
\* is constructed, or httpx.AsyncClient raises after the Qdrant and SQLite
\* clients were opened; a SQLite connection that fails is only logged
InitOutcomes == {"ok", "fail_qdrant", "fail_http"}

\* the clients initialize has opened when it ends with outcome
OpenedBy(outcome, sqlite_ok) ==
    IF outcome = "fail_qdrant" THEN {}
    ELSE {"qdrant"} \cup (IF sqlite_ok THEN {"sqlite"} ELSE {})
                   \cup (IF outcome = "ok" THEN {"http"} ELSE {})

\* main when "if not await classifier.initialize()" takes its branch: it
\* returns, outside the try statement
init_failed(clients) ==
    [Created EXCEPT !.at = "stopped", !.open = clients, !.opened = clients,
                    !.how = "init"]

\* main up to its try statement
initialize(once, sqlite_ok, outcome) ==
    /\ proc.at = "created"
    /\ sqlite_client' = (sqlite_ok /\ outcome # "fail_qdrant")
    /\ proc' = IF outcome = "ok"
               THEN Running(once, OpenedBy(outcome, sqlite_ok))
               ELSE init_failed(OpenedBy(outcome, sqlite_ok))
    /\ UNCHANGED <<points, gt, svc_vars, replies, tracker, loop_vars, sched_vars,
                   hist_vars>>

\* "finally: await classifier.cleanup()": cleanup closes the HTTP client and
\* disconnects the SQLite client, and main ends
cleanup(how) ==
    [proc EXCEPT !.at = "stopped", !.open = @ \ {"http", "sqlite"},
                 !.cleanup_ran = TRUE, !.how = how]

\* the frames of a cycle are dropped when an exception leaves it
AbandonCycle ==
    /\ pc' = "idle"
    /\ scan_points' = <<>>
    /\ unclassified_by_user' = <<>>
    /\ email_ids' = <<>>
    /\ results' = <<>>
    /\ seen_labeled' = {}
    /\ found_ready' = {}
    /\ processed_at_start' = {}
    /\ UNCHANGED <<points, gt, svc_vars, replies, sqlite_client, tracker, loop_vars,
                   processed_emails, written, rewritten, unready_marked,
                   failed_ids, train_succeeded>>

\* run_once returns after its cycle
run_once ==
    /\ proc.at = "running" /\ proc.once /\ proc.cycled
    /\ pc = "idle"
    /\ proc' = cleanup("done")
    /\ UNCHANGED <<points, gt, svc_vars, replies, sqlite_client, tracker, loop_vars,
                   sched_vars, hist_vars>>

\* run_continuously: "except Exception" logs, sleeps and goes on
error_caught == [proc EXCEPT !.how = "error"]

\* an exception leaves run_classification_cycle: run_continuously catches it,
\* run_once lets it through to the finally clause of main
cycle_raises ==
    /\ proc.at = "running"
    /\ pc # "idle"
    /\ AbandonCycle
    /\ proc' = IF proc.once THEN cleanup("error") ELSE error_caught

\* KeyboardInterrupt, or the cancellation asyncio.run turns it into, arrives
\* while main runs
interrupted ==
    /\ proc.at = "running"
    /\ AbandonCycle
    /\ proc' = cleanup("interrupt")

(***************************************************************************)
(* Specifications                                                          *)
(***************************************************************************)
NoReply == Reply("none", "None", <<>>, 0, "none", <<>>, 0)

\* the last step of the service: the request, the status of its reply,
\* whether it trained, and what its calls of save_to_disk returned
Request(op, u, r) ==
    [op |-> op, user |-> u, status |-> r.status, trained |-> r.trained,
     saved |-> r.saved]
NoOutcome == [status |-> 0, trained |-> FALSE, saved |-> <<>>]
NoRequest == Request("none", "None", NoOutcome)

\* the service as it starts and the scheduler as __init__ leaves it, but for
\* its clients
Constructed ==
    /\ gt = [e \in Emails |-> Row("unclassified", 0, FALSE)]
    /\ user_models = <<>>
    /\ disk = <<>>
    /\ uuid_next = 1
    /\ response = NoReply
    /\ request = NoRequest
    /\ processed_emails = {}
    /\ pc = "idle"
    /\ scan_points = <<>>
    /\ unclassified_by_user = <<>>
    /\ email_ids = <<>>
    /\ results = <<>>
    /\ written = {}
    /\ rewritten = {}
    /\ unready_marked = {}
    /\ failed_ids = {}
    /\ seen_labeled = {}
    /\ found_ready = {}
    /\ processed_at_start = {}
    /\ train_succeeded = {}
    /\ tasks = <<>>
    /\ running = {}
    /\ tracker = NewTracker

\* the state after construction and a successful initialize in continuous
\* mode, but for the collection
Started ==
    /\ Constructed
    /\ sqlite_client \in BOOLEAN
    /\ proc = Running(FALSE, {"qdrant", "http"}
                             \cup IF sqlite_client THEN {"sqlite"} ELSE {})

Init == points = <<>> /\ Started

Scheduler ==
    \/ run_classification_cycle
    \/ scan_point
    \/ end_scan
    \/ check_ready
    \/ submit_batch
    \/ write_result

Ex(e, l) == [email_id |-> e, is_important |-> l]

\* the step leaves no classifier of the registry with more than n evidence entries
WithinExamples(n) ==
    \A u \in DOMAIN user_models' : Len(user_models'[u].labeled_examples) <= n

\* the step leaves at most n uuids drawn
WithinUuids(n) == uuid_next' <= n + 1

\* requests of the users who label and train while the scheduler runs
Service ==
    /\ \/ label_emails("u1", <<Ex("e1", TRUE)>>, TRUE, NoFaults)
       \/ \E ok \in BOOLEAN :
             train_classifier("u1", <<Ex("e1", TRUE), Ex("e2", FALSE)>>, TRUE, ok,
                              NoFaults)
    /\ WithinExamples(MaxExamples)
    /\ WithinUuids(MaxUuid)
    /\ UNCHANGED replies

Next ==
    \/ Scheduler
    \/ \E p \in Payloads : EmbedEmail(p)
    \/ \E e \in HumanLabeled : HumanLabel(e, "important")
    \/ Service

Spec == Init /\ [][Next]_vars

\* the service alone, under requests of every kind; the scheduler is not started
Trainers == {"u1"}
TrainInputs == {<<Ex("e1", TRUE), Ex("e2", FALSE)>>, <<Ex("e1", TRUE)>>}
LabelInputs == {<<Ex("e1", TRUE)>>}
IdLists == {<<>>, <<"e1">>, <<"e1", "e3">>}
TargetLists == {<<>>, <<"e1">>}

SvcNext ==
    \/ \E p \in Payloads : EmbedEmail(p)
    \/ /\ \E u \in Trainers, examples \in LabelInputs :
             label_emails(u, examples, TRUE, NoFaults)
       /\ WithinExamples(MaxExamples)
       /\ WithinUuids(MaxUuid)
       /\ UNCHANGED replies
    \/ /\ \E u \in Trainers, examples \in TrainInputs, retrain \in BOOLEAN,
             ok \in BOOLEAN, fit \in {"fitted", "fit_raises"} :
             train_classifier(u, examples, retrain, ok, [NoFaults EXCEPT !.fit = fit])
       /\ WithinExamples(MaxExamples)
       /\ WithinUuids(MaxUuid)
       /\ UNCHANGED replies
    \/ \E u \in Users, ids \in IdLists : classify_request(u, ids)
    \/ \E u \in Users, targets \in TargetLists : classify_call(u, targets)
    \/ \E u \in Trainers : reset_user_model(u, Removed) /\ UNCHANGED request

SvcInit == Init /\ sqlite_client

SvcSpec == SvcInit /\ [][SvcNext]_vars


\* the service under faults: reads that raise, fits that raise, saves that stop
\* part-way, and restarts of the process. The collection holds e1 and e2.
Stored == <<[emailId |-> "e1", userId |-> "u1"], [emailId |-> "e2", userId |-> "u1"]>>
PersistTrainInputs == {<<Ex("e1", TRUE), Ex("e2", FALSE)>>, <<Ex("e2", FALSE)>>}
PersistLabelInputs == {<<Ex("e1", TRUE)>>}
FeedbackInputs == {[email_id |-> "e2", actual_label |-> FALSE, predicted_label |-> TRUE],
                   [email_id |-> "e2", actual_label |-> TRUE, predicted_label |-> TRUE]}

\* at most one thing goes wrong in a request
SingleFaults ==
    {f \in Faults : Cardinality({k \in DOMAIN f : f[k] # NoFaults[k]}) <= 1}
\* a request that does not reach a training has no fault of the fit or of the
\* save that follows it
AddFaults == {f \in SingleFaults : f.fit = "fitted" /\ f.save_trained = "saved"}

PersistNext ==
    \/ \E u \in Trainers, examples \in PersistTrainInputs, retrain \in BOOLEAN,
          ok \in BOOLEAN, f \in SingleFaults :
          /\ ok \/ f = NoFaults
          /\ train_classifier(u, examples, retrain, ok, f)
          /\ WithinExamples(MaxExamples)
          /\ WithinUuids(MaxUuid)
          /\ request' = Request("train", u,
                                train_request(u, examples, retrain, ok, f))
          /\ UNCHANGED response
    \/ \E u \in Trainers, examples \in PersistLabelInputs, f \in AddFaults :
          /\ label_emails(u, examples, TRUE, f)
          /\ WithinExamples(MaxExamples)
          /\ WithinUuids(MaxUuid)
          /\ request' = Request("label", u,
                                label_request(u, examples, TRUE, f))
          /\ UNCHANGED response
    \/ \E u \in Trainers, fb \in FeedbackInputs, f \in AddFaults :
          /\ f.read_ok
          /\ submit_feedback(u, fb.email_id, fb.actual_label, fb.predicted_label,
                             TRUE, f)
          /\ WithinExamples(MaxExamples)
          /\ WithinUuids(MaxUuid)
          /\ request' = Request("feedback", u,
                                feedback_request(u, fb.email_id, fb.actual_label,
                                                 fb.predicted_label, TRUE, f))
          /\ UNCHANGED response
    \/ /\ \E read_ok \in [DOMAIN disk -> BOOLEAN] : load_all_user_models(read_ok)
       /\ WithinUuids(MaxUuid)
       /\ request' = Request("restart", "None", NoOutcome)
    \/ \E u \in Trainers :
          /\ reset_user_model(u, Removed)
          /\ request' = Request("reset", u, NoOutcome)

PersistInit == points = Stored /\ Started /\ sqlite_client

PersistSpec == PersistInit /\ [][PersistNext]_vars

\* the service across restarts: a user trains and labels, saves stop part-way,
\* the process is restarted and reads of the directories fail
SaveFaults == {f \in SingleFaults : f.read_ok /\ f.fit = "fitted"}
RestartTrainInputs == {<<Ex("e1", TRUE), Ex("e2", FALSE)>>}

RestartNext ==
    \/ \E u \in Trainers, examples \in RestartTrainInputs, f \in SaveFaults :
          /\ train_classifier(u, examples, FALSE, TRUE, f)
          /\ WithinExamples(MaxExamples)
          /\ WithinUuids(MaxTokens)
          /\ request' = Request("train", u,
                                train_request(u, examples, FALSE, TRUE, f))
          /\ UNCHANGED response
    \/ \E u \in Trainers, examples \in PersistLabelInputs, f \in SaveFaults :
          /\ f.save_trained = "saved"
          /\ label_emails(u, examples, TRUE, f)
          /\ WithinExamples(MaxExamples)
          /\ WithinUuids(MaxTokens)
          /\ request' = Request("label", u, label_request(u, examples, TRUE, f))
          /\ UNCHANGED response
    \/ /\ \E read_ok \in [DOMAIN disk -> BOOLEAN] : load_all_user_models(read_ok)
       /\ WithinUuids(MaxTokens)
       /\ request' = Request("restart", "None", NoOutcome)
    \/ \E u \in Trainers :
          /\ reset_user_model(u, Removed)
          /\ request' = Request("reset", u, NoOutcome)

RestartSpec == PersistInit /\ [][RestartNext]_vars

\* the registry and the directory of a user: label and train requests, resets
\* whose removal of the directory may fail, restarts whose reads may fail
RegistryFaults ==
    {f \in AddFaults : f.save_added \in {"saved", "fail_examples"}}

RegistryNext ==
    \/ \E u \in Trainers, examples \in PersistLabelInputs, f \in RegistryFaults :
          /\ label_emails(u, examples, TRUE, f)
          /\ WithinExamples(MaxExamples)
          /\ WithinUuids(MaxTokens)
          /\ request' = Request("label", u, label_request(u, examples, TRUE, f))
          /\ UNCHANGED response
    \/ \E u \in Trainers, examples \in RestartTrainInputs, retrain \in BOOLEAN :
          /\ train_classifier(u, examples, retrain, TRUE, NoFaults)
          /\ WithinExamples(MaxExamples)
          /\ WithinUuids(MaxTokens)
          /\ request' = Request("train", u,
                                train_request(u, examples, retrain, TRUE, NoFaults))
          /\ UNCHANGED response
    \/ \E u \in Trainers, rm \in RmOutcomes :
          /\ reset_user_model(u, rm)
          /\ request' = Request("reset", u, NoOutcome)
    \/ /\ \E read_ok \in [DOMAIN disk -> BOOLEAN] : load_all_user_models(read_ok)
       /\ WithinUuids(MaxTokens)
       /\ request' = Request("restart", "None", NoOutcome)

RegistrySpec == PersistInit /\ [][RegistryNext]_vars

\* the startup of the service with the directories of two users: both label,
\* one trains, the process restarts and reads of either directory may fail
StartupNext ==
    \/ \E u \in Users, examples \in PersistLabelInputs :
          /\ label_emails(u, examples, TRUE, NoFaults)
          /\ WithinExamples(MaxExamples)
          /\ WithinUuids(MaxTokens)
          /\ request' = Request("label", u,
                                label_request(u, examples, TRUE, NoFaults))
          /\ UNCHANGED response
    \/ \E u \in Trainers, examples \in RestartTrainInputs :
          /\ train_classifier(u, examples, TRUE, TRUE, NoFaults)
          /\ WithinUuids(MaxTokens)
          /\ request' = Request("train", u,
                                train_request(u, examples, TRUE, TRUE, NoFaults))
          /\ UNCHANGED response
    \/ /\ \E read_ok \in [DOMAIN disk -> BOOLEAN] : load_all_user_models(read_ok)
       /\ WithinUuids(MaxTokens)
       /\ request' = Request("restart", "None", NoOutcome)

StartupSpec == PersistInit /\ [][StartupNext]_vars

\* the scan over a collection that holds more points than one scroll returns:
\* the limit of the scroll is scaled from 10000 to PageLimit points, the
\* collection grows to MaxPoints, no user has a classifier
ScanNext ==
    \/ scroll_cycle(PageLimit)
    \/ scan_point
    \/ end_scan
    \/ check_ready
    \/ \E p \in Payloads : EmbedEmail(p)
    \/ \E e \in HumanLabeled : HumanLabel(e, "important")

ScanSpec == Init /\ [][ScanNext]_vars

\* the requests of one user as the event loop serves them: train, label,
\* classify and reset requests arrive while earlier ones are still being served
LoopTargets == {<<"e1">>, <<"e3">>}

LoopNext ==
    \/ \E t \in Slots, u \in Trainers, examples \in RestartTrainInputs,
          retrain \in BOOLEAN :
          /\ add_evidence(t, "train", u, examples, retrain)
          /\ WithinExamples(MaxExamples)
          /\ WithinUuids(MaxTokens)
    \/ \E t \in Slots, u \in Trainers, examples \in PersistLabelInputs :
          /\ add_evidence(t, "label", u, examples, FALSE)
          /\ WithinExamples(MaxExamples)
          /\ WithinUuids(MaxTokens)
    \/ \E t \in DOMAIN tasks : train_and_reply(t) /\ WithinUuids(MaxTokens)
    \/ \E t \in Slots, u \in Trainers, ids \in LoopTargets : classify_lookup(t, u, ids)
    \/ \E t \in DOMAIN tasks : classify_reference(t)
    \/ \E t \in DOMAIN tasks :
          \E preds \in [1..Len(tasks[t].email_data_list) -> Predictions] :
             classify_and_reply(t, preds)
    \/ \E u \in Trainers :
          /\ Idle
          /\ reset_user_model(u, Removed)
          /\ request' = Handled("reset", u, 200, FALSE, <<>>, <<>>, <<>>)

LoopSpec == PersistInit /\ [][LoopNext]_vars

\* the same requests with resets whose shutil.rmtree raises
ResetRaceNext ==
    \/ LoopNext
    \/ \E u \in Trainers, rm \in RmOutcomes \ {Removed} :
          /\ Idle
          /\ reset_user_model(u, rm)
          /\ request' = Handled("reset", u, 200, FALSE, <<>>, <<>>, <<>>)

ResetRaceSpec == PersistInit /\ [][ResetRaceNext]_vars

\* the two reading endpoints of the service, called for a user who labels,
\* trains and resets and for a user without classifier
ReadNext ==
    \/ \E u \in Trainers, examples \in PersistLabelInputs :
          /\ label_emails(u, examples, TRUE, NoFaults)
          /\ WithinExamples(MaxExamples)
          /\ WithinUuids(MaxTokens)
          /\ UNCHANGED replies
    \/ \E u \in Trainers, examples \in RestartTrainInputs, retrain \in BOOLEAN :
          /\ train_classifier(u, examples, retrain, TRUE, NoFaults)
          /\ WithinExamples(MaxExamples)
          /\ WithinUuids(MaxTokens)
          /\ UNCHANGED replies
    \/ \E u \in Users, ids \in LoopTargets : classify_request(u, ids)
    \/ \E u \in Users : stats_request(u)
    \/ \E u \in Trainers : reset_user_model(u, Removed) /\ UNCHANGED request

ReadSpec == PersistInit /\ [][ReadNext]_vars

\* The feature extractor on the classifiers a user builds, with targets and
\* reference emails drawn from small sets.
Metadata ==
    {[createdAt |-> [kind |-> "absent", hour |-> 0, weekday |-> 0],
      userId |-> "u2", embeddingModel |-> "other"],
     [createdAt |-> [kind |-> "iso", hour |-> 10, weekday |-> 2],
      userId |-> "u1", embeddingModel |-> "text-embedding-3-small"]}
TargetData ==
    [email_id : {"e3"}, embedding : {NoEmbedding, <<3, 4>>},
     metadata : Metadata]
Ref(e, embedding) ==
    [email_id |-> e, embedding |-> embedding,
     metadata |-> [createdAt |-> [kind |-> "invalid", hour |-> 0, weekday |-> 0],
                   userId |-> "u1", embeddingModel |-> "other"]]
ReferenceData ==
    {Ref("e1", <<1, 0>>), Ref("e1", NoEmbedding),
     Ref("e2", <<0, 1>>), Ref("e2", NoEmbedding)}
ReferenceSets == UNION {[1..n -> ReferenceData] : n \in 0..MaxReference}

\* the extractor is called on the registry's classifier of u
extract_call(u, email_data, labeled_email_data) ==
    /\ u \in DOMAIN user_models
    /\ request' = [op |-> "extract", user |-> u, status |-> 0, trained |-> FALSE,
                   saved |-> <<>>, email_data |-> email_data,
                   labeled_email_data |-> labeled_email_data,
                   features |-> extract_features_with_labels(
                                   user_models[u], u, email_data, labeled_email_data)]
    /\ UNCHANGED <<points, gt, svc_vars, response, sqlite_client, proc, tracker, loop_vars,
                   sched_vars, hist_vars>>

FeatureNext ==
    \/ /\ \/ label_emails("u1", <<Ex("e1", TRUE)>>, TRUE, NoFaults)
          \/ train_classifier("u1", <<Ex("e1", TRUE), Ex("e2", FALSE)>>, TRUE, TRUE,
                              NoFaults)
       /\ WithinExamples(MaxExamples)
       /\ WithinUuids(MaxUuid)
       /\ UNCHANGED replies
    \/ \E email_data \in TargetData, labeled_email_data \in ReferenceSets :
          extract_call("u1", email_data, labeled_email_data)

FeatureSpec == PersistInit /\ [][FeatureNext]_vars

\* threads that add ids to the tracker and save it
TrackerNext ==
    \E t \in Threads :
       \/ \E e \in Emails : add_test(t, e)
       \/ add_insert(t)
       \/ add_mark(t)
       \/ save_call(t)
       \/ save_test(t)
       \/ save_list(t)
       \/ save_write(t)
       \/ save_clear(t)

TrackerSpec == Init /\ [][TrackerNext]_vars

\* main from its start to its end, in either mode, with a user who trains
ExitInit == points = Stored /\ Constructed /\ sqlite_client = FALSE /\ proc = Created

ExitNext ==
    \/ \E once \in BOOLEAN, sqlite_ok \in BOOLEAN, outcome \in InitOutcomes :
          initialize(once, sqlite_ok, outcome)
    \/ proc.at = "running" /\ ~proc.cycled /\ run_classification_cycle
    \/ proc.at = "running" /\ scan_point
    \/ proc.at = "running" /\ end_scan
    \/ proc.at = "running" /\ check_ready
    \/ proc.at = "running" /\ submit_batch
    \/ proc.at = "running" /\ write_result
    \/ run_once
    \/ cycle_raises
    \/ interrupted
    \/ /\ train_classifier("u1", <<Ex("e1", TRUE), Ex("e2", FALSE)>>, TRUE, TRUE,
                           NoFaults)
       /\ WithinUuids(MaxUuid)
       /\ UNCHANGED replies

ExitSpec == ExitInit /\ [][ExitNext]_vars

\* The scheduler in continuous mode with every external call succeeding: the
\* SQLite client is connected, the scroll, the SELECTs, the GET /stats, the
\* POST /classify with its fetches, and the UPDATEs all go through.
ScrollSucceeds == run_classification_cycle /\ pc' = "scanning"
SelectSucceeds ==
    /\ scan_point
    /\ unclassified_by_user' # unclassified_by_user
          => gt[Head(scan_points).emailId].importance = "unclassified"
StatsSucceeds ==
    /\ check_ready
    /\ user_has_trained_model(CurrentUser, TRUE) => pc' = "submitting"
ClassifySucceeds ==
    /\ submit_batch
    /\ \E preds \in [1..Len(batch) -> Predictions] :
          LET reply == classify_emails(CurrentUser, batch, TRUE, preds)
          IN  IF reply.status = 200
              THEN results' = reply.results /\ pc' = "reconciling"
              ELSE pc' # "reconciling"
UpdateSucceeds ==
    /\ write_result
    /\ gt' = update_email_importance(Head(results).email_id,
                                     Head(results).is_important,
                                     Head(results).confidence, TRUE)

\* the user of LiveSpec trains on e1 and e2 and resets; the pipeline embeds
LiveNext ==
    \/ ScrollSucceeds
    \/ SelectSucceeds
    \/ end_scan
    \/ StatsSucceeds
    \/ ClassifySucceeds
    \/ UpdateSucceeds
    \/ \E p \in Payloads : EmbedEmail(p)
    \/ /\ train_classifier("u1", <<Ex("e1", TRUE), Ex("e2", FALSE)>>, TRUE, TRUE,
                           NoFaults)
       /\ WithinUuids(MaxUuid)
       /\ UNCHANGED replies
    \/ /\ reset_user_model("u1", Removed)
       /\ UNCHANGED request

LiveInit == Init /\ sqlite_client

\* run_continuously: the loop is scheduled fairly, each step of a cycle is
\* taken and after each sleep the next cycle starts
LiveSpec ==
    /\ LiveInit
    /\ [][LiveNext]_vars
    /\ WF_vars(ScrollSucceeds)
    /\ WF_vars(SelectSucceeds)
    /\ WF_vars(end_scan)
    /\ WF_vars(StatsSucceeds)
    /\ WF_vars(ClassifySucceeds)
    /\ WF_vars(UpdateSucceeds)

\* the service around the retrain threshold: a user labels in bulk, labels
\* single emails and corrects predictions; e3 has no embedding record
BulkInputs ==
    {[important_email_ids |-> <<"e1", "e1", "e1", "e1">>,
      unimportant_email_ids |-> <<"e2", "e2", "e2", "e2">>],
     [important_email_ids |-> <<"e1", "e1", "e1", "e1", "e1">>,
      unimportant_email_ids |-> <<"e2", "e2", "e2", "e2", "e2">>],
     [important_email_ids |-> <<"e3", "e3", "e3", "e3", "e3">>,
      unimportant_email_ids |-> <<"e3", "e3", "e3", "e3">>]}
ThresholdLabelInputs == {<<Ex("e1", TRUE)>>}

ThresholdNext ==
    \/ \E u \in Trainers, b \in BulkInputs :
          /\ bulk_label_emails(u, b.important_email_ids, b.unimportant_email_ids,
                               TRUE, NoFaults)
          /\ WithinExamples(MaxEvidence)
          /\ WithinUuids(MaxUuid)
          /\ request' = Request("bulk_label", u,
                                label_request(u, bulk_examples(b.important_email_ids,
                                                               b.unimportant_email_ids),
                                              TRUE, NoFaults))
          /\ UNCHANGED response
    \/ \E u \in Trainers, examples \in ThresholdLabelInputs :
          /\ label_emails(u, examples, TRUE, NoFaults)
          /\ WithinExamples(MaxEvidence)
          /\ WithinUuids(MaxUuid)
          /\ request' = Request("label", u, label_request(u, examples, TRUE, NoFaults))
          /\ UNCHANGED response
    \/ \E u \in Trainers, fb \in FeedbackInputs :
          /\ submit_feedback(u, fb.email_id, fb.actual_label, fb.predicted_label,
                             TRUE, NoFaults)
          /\ WithinExamples(MaxEvidence)
          /\ WithinUuids(MaxUuid)
          /\ request' = Request("feedback", u,
                                feedback_request(u, fb.email_id, fb.actual_label,
                                                 fb.predicted_label, TRUE, NoFaults))
          /\ UNCHANGED response

ThresholdSpec == PersistInit /\ [][ThresholdNext]_vars

(***************************************************************************)
(* Properties                                                              *)
(***************************************************************************)
Importances == {"important", "not_important"}
PointIds == {points[i].emailId : i \in DOMAIN points}
ListedIds == UNION {Range(unclassified_by_user[i].email_ids) :
                      i \in DOMAIN unclassified_by_user}
ResultIds == {results[i].email_id : i \in DOMAIN results}
\* ids the cycle holds in a per-owner list, in a batch to submit or in a result
\* to write
InFlight == ListedIds \cup Range(email_ids) \cup ResultIds
EvidenceCount(u) ==
    IF u \in DOMAIN user_models THEN Len(user_models[u].labeled_examples) ELSE 0
\* a step of the reconcile loop
ReconcileStep == pc = "reconciling" /\ results' # results
\* a step in which a submission failed
FailedSubmit == pc = "submitting" /\ failed_ids' # failed_ids
Distinct(s) == \A i \in DOMAIN s, j \in DOMAIN s : s[i] = s[j] => i = j

\* C1: a reconcile step changes a ground-truth record only when its importance
\* is unclassified; a record that already carries a label, a human's or the
\* classifier's, is left as it is, also when the label arrived after the scan.
C1_OnlyFromUnclassified ==
    [][ReconcileStep =>
          \A e \in Emails : gt'[e] # gt[e] => gt[e].importance = "unclassified"]_vars

\* C2: an id whose record was already labeled when the scan of the cycle
\* examined it is not written by the scheduler in that cycle.
C2_NoWriteToLabeledAtScan ==
    [][ReconcileStep => \A e \in seen_labeled : gt'[e] = gt[e]]_vars

\* C3: the scheduler executes at most one UPDATE per email id over the life of
\* the process.
C3_AtMostOneWrite == rewritten = {}

\* C4: processed_emails never loses an element, and an id that was in it when
\* a cycle started is in no per-owner list, no batch and no result of that cycle.
C4_ProcessedMonotonic ==
    /\ [](processed_at_start \cap InFlight = {})
    /\ [](processed_at_start \subseteq processed_emails)
    /\ [][processed_emails \subseteq processed_emails']_vars

\* C4 happens: in a later cycle an id marked while its owner was unready stays
\* out of the batch although the owner is now ready and is being served
C4_Witness ==
    /\ pc = "submitting"
    /\ \E e \in unready_marked \cap processed_at_start \cap PointIds :
          /\ PointUser(e) = CurrentUser
          /\ e \notin InFlight

C6_NoRetry ==
    /\ [][FailedSubmit =>
             /\ Range(batch) \subseteq processed_emails'
             /\ gt' = gt
             /\ results' = <<>>
             /\ pc' # "reconciling"
             /\ email_ids' = Drop(email_ids, batch_size)]_vars
    /\ [](failed_ids \cap processed_at_start \cap InFlight = {})
    /\ [](pc \in {"idle", "scanning", "check_ready"} => failed_ids \subseteq processed_emails)

\* C6 happens: in a later cycle an id of a failed batch is still unclassified,
\* unwritten and outside the batch being submitted for its owner
C6_Witness ==
    /\ pc = "submitting"
    /\ \E e \in failed_ids \cap processed_at_start \cap PointIds :
          /\ PointUser(e) = CurrentUser
          /\ e \notin written
          /\ gt[e].importance = "unclassified"
          /\ e \notin InFlight

\* C7: a reconcile step either leaves the emails table as it is or sets the
\* row of the result at hand to important / not_important with the result's
\* confidence and user_labeled = 0; processed_emails does not change while
\* results of the batch remain to be written, and takes the ids of the batch
\* in the step that writes the last one.
C7_Reconcile ==
    /\ [][ReconcileStep =>
             LET r == Head(results)
             IN  \/ gt' = gt
                 \/ /\ gt' = [gt EXCEPT ![r.email_id] =
                               Row(IF r.is_important THEN "important"
                                   ELSE "not_important", r.confidence, FALSE)]
                    /\ gt'[r.email_id].importance \in Importances]_vars
    /\ [][pc' = "reconciling" => processed_emails' = processed_emails]_vars
    /\ [][(pc = "reconciling" /\ pc' # "reconciling")
             => /\ Len(results) = 1
                /\ results' = <<>>
                /\ processed_emails' = processed_emails \cup Range(batch)]_vars

\* C7 happens: a written record carries the classifier's label and confidence,
\* user_labeled = 0, and its id is marked processed
C7_Witness ==
    \E e \in written \cap processed_emails :
        /\ gt[e].importance \in Importances
        /\ gt[e].importance_confidence \in {90, 60}
        /\ gt[e].user_labeled = FALSE

\* C8: every reply to POST /classify is a 200 reply.
C8_ClassifyNeverFails ==
    response.op = "classify" => response.status = 200

\* C9: EmailClassifier.classify raises the model-not-trained error, with no
\* result, on a classifier on which no train succeeded, and the
\* insufficient-data error on one that holds a model and fewer than 2 evidence
\* entries; the registry and the persisted artifacts are as before the call.
C9_ClassifyRefuses ==
    [][(response' # response /\ response'.op = "classify_call") =>
          LET cls == user_models[response'.user]
          IN  /\ response'.user \notin train_succeeded
                   => /\ response'.error = "ModelNotTrained"
                      /\ response'.results = <<>>
              /\ (cls.model # NoModel /\ Len(cls.labeled_examples) < 2)
                   => /\ response'.error = "InsufficientData"
                      /\ response'.results = <<>>
              /\ user_models' = user_models
              /\ disk' = disk]_vars

\* C10: a 200 reply of POST /classify to a list of distinct ids, for an owner
\* whose classifier holds a model, has one result per requested id and no other.
C10_OneResultPerId ==
    (/\ response.op = "classify"
     /\ response.status = 200
     /\ response.user \in train_succeeded
     /\ Distinct(response.ids))
    => /\ Len(response.results) = Len(response.ids)
       /\ {response.results[i].email_id : i \in DOMAIN response.results}
             = Range(response.ids)

\* the evidence entries of cls whose id has an embedding record in the store
Resolvable(cls) ==
    SelectSeq(cls.labeled_examples, LAMBDA ex : ex.email_id \in PointIds)
\* requests PersistSpec sends to POST /train in which nothing goes wrong
TrainRequests ==
    [u : Trainers, examples : PersistTrainInputs, retrain : BOOLEAN]

\* C11: a train request fails with 404 when none of the ids it references
\* resolves, with 400 when fewer than 2 of the owner's evidence entries
\* resolve, and succeeds otherwise: an owner whose accumulated evidence has at
\* least 2 resolvable entries can always be trained.
C11_TrainOutcome ==
    [][\A q \in TrainRequests :
          LET r == train_request(q.u, q.examples, q.retrain, TRUE, NoFaults)
          IN  (/\ train_classifier(q.u, q.examples, q.retrain, TRUE, NoFaults)
               /\ request' = Request("train", q.u, r))
              => r.status =
                   IF Range(Ids(q.examples)) \cap PointIds = {} THEN 404
                   ELSE IF Len(Resolvable(user_models'[q.u])) < 2 THEN 400
                   ELSE 200]_vars

\* C12: a train request that ends in InsufficientData changes nothing: the
\* registry entry of the owner (evidence, model, model_version, last_trained)
\* and the persisted artifacts are after the request what they were before it,
\* with or without the retrain flag.
C12_InsufficientDataNoChange ==
    [][\A q \in TrainRequests :
          LET r == train_request(q.u, q.examples, q.retrain, TRUE, NoFaults)
          IN  (/\ train_classifier(q.u, q.examples, q.retrain, TRUE, NoFaults)
               /\ request' = Request("train", q.u, r)
               /\ r.status = 400)
              => UNCHANGED <<user_models, disk>>]_vars

\* the fit outcomes in which EmailClassifier.train raises
FitFailures == FitOutcomes \ {"fitted"}

\* C13: when EmailClassifier.train fails internally, while the features are
\* built or in the fit, the request fails and the classifier keeps the model,
\* the model_version and the last_trained it had before the call, so that
\* classify goes on as before.
C13_FailedTrainKeepsModel ==
    [][\A q \in TrainRequests, fit \in FitFailures :
          LET f == [NoFaults EXCEPT !.fit = fit]
              r == train_request(q.u, q.examples, q.retrain, TRUE, f)
          IN  (/\ q.u \in DOMAIN user_models
               /\ train_classifier(q.u, q.examples, q.retrain, TRUE, f)
               /\ request' = Request("train", q.u, r)
               /\ train_ok(r.cls, get_emails_by_ids(Ids(q.examples), TRUE)))
              => /\ r.status = 400
                 /\ user_models'[q.u].model = user_models[q.u].model
                 /\ user_models'[q.u].model_version = user_models[q.u].model_version
                 /\ user_models'[q.u].last_trained = user_models[q.u].last_trained
                 /\ classify_error(user_models'[q.u])
                       = classify_error([user_models[q.u] EXCEPT
                            !.labeled_examples = user_models'[q.u].labeled_examples])]_vars

\* the directory of u holds the three artifacts and they describe cls
Persisted(d, u, cls) ==
    /\ u \in DOMAIN d
    /\ d[u].examples = <<cls.labeled_examples>>
    /\ d[u].model # <<>> /\ d[u].model[1].model = cls.model
    /\ d[u].metadata = <<[model_version |-> cls.model_version,
                          last_trained |-> cls.last_trained,
                          examples_count |-> Len(cls.labeled_examples)]>>

\* a step of PersistSpec in which a request trained
TrainedStep == request'.op \in {"train", "label", "feedback"} /\ request'.trained

\* the last save_to_disk of the request returned True
LastSaved(q) == q.saved # <<>> /\ q.saved[Len(q.saved)]

\* the step gave the classifier of u a fitted model, a model_version no
\* classifier and no metadata of u had before, and stamped last_trained
NewVersion(u) ==
    LET after == user_models'[u]
    IN  /\ after.model \notin {NoModel, UnfittedModel}
        /\ after.model_version >= uuid_next
        /\ after.last_trained = Clock(uuid_next')
        /\ u \in DOMAIN user_models
              => /\ after.model_version # user_models[u].model_version
                 /\ after.last_trained > user_models[u].last_trained
        /\ (u \in DOMAIN disk /\ disk[u].metadata # <<>>)
              => after.model_version # disk[u].metadata[1].model_version

AddedStep(u) ==
    /\ request'.user = u
    /\ request'.op \in {"label", "bulk_label", "feedback"}
    /\ EvidenceCount(u)' > EvidenceCount(u)

\* C15: after a label, bulk-label or corrective feedback call a retraining is
\* triggered exactly when the owner's evidence count after the addition is at
\* least 10, and then, if the evidence resolves, model_version changes and
\* stats reports the full evidence count; below 10 these calls never train
\* and leave model and model_version as they were.
C15_RetrainThreshold ==
    [][\A u \in Users :
          AddedStep(u) =>
             LET n == EvidenceCount(u)'
             IN  /\ request'.trained => n >= 10
                 /\ (n >= 10 /\ Len(Resolvable(user_models'[u])) >= 2)
                       => /\ request'.trained
                          /\ NewVersion(u)
                          /\ get_model_stats(u)'
                                = [status |-> 200, total_examples |-> n]
                 /\ n < 10
                       => /\ ~request'.trained
                          /\ u \in DOMAIN user_models
                                => /\ user_models'[u].model = user_models[u].model
                                   /\ user_models'[u].model_version
                                         = user_models[u].model_version]_vars

\* C15 happens: the tenth evidence entry of u1 came with a corrective feedback
\* and retrained
C15_Witness ==
    /\ request = Request("feedback", "u1",
                         [status |-> 200, trained |-> TRUE, saved |-> <<TRUE, TRUE>>])
    /\ EvidenceCount("u1") = 10
    /\ user_models["u1"].model = user_models["u1"].model_version

\* the threshold is reached by evidence of which one entry resolves: the
\* retraining is attempted and fails, and the classifier stays without model
C15_WitnessUnresolved ==
    /\ request.op \in {"label", "feedback"} /\ ~request.trained
    /\ EvidenceCount("u1") = 10
    /\ Len(Resolvable(user_models["u1"])) = 1
    /\ user_models["u1"].model = NoModel

\* C16: a feedback whose actual_label differs from predicted_label adds
\* exactly one evidence entry, the email id with the actual label, to the
\* owner's classifier; a feedback whose labels agree adds none and leaves the
\* evidence, the model, the model_version and the persisted artifacts as they
\* were; a feedback for an owner without classifier fails with 404 and changes
\* nothing.
C16_Feedback ==
    [][request'.op = "feedback" =>
          \A u \in Trainers, fb \in FeedbackInputs, f \in AddFaults :
             (/\ submit_feedback(u, fb.email_id, fb.actual_label,
                                 fb.predicted_label, TRUE, f)
              /\ request' = Request("feedback", u,
                                    feedback_request(u, fb.email_id, fb.actual_label,
                                                     fb.predicted_label, TRUE, f)))
             => IF u \notin DOMAIN user_models
                THEN request'.status = 404 /\ UNCHANGED <<user_models, disk>>
                ELSE IF fb.actual_label = fb.predicted_label
                THEN request'.status = 200 /\ UNCHANGED <<user_models, disk>>
                ELSE /\ request'.status = 200
                     /\ user_models'[u].labeled_examples
                           = Append(user_models[u].labeled_examples,
                                    Ex(fb.email_id, fb.actual_label))]_vars

\* C16 happens: a corrective feedback on e2 added the entry (e2, not important)
\* to the one entry u1 had
C16_Witness ==
    /\ request.op = "feedback" /\ request.status = 200 /\ request.saved # <<>>
    /\ "u1" \in DOMAIN user_models
    /\ user_models["u1"].labeled_examples = <<Ex("e1", TRUE), Ex("e2", FALSE)>>

\* the evidence document and the metadata of u reflect the evidence of cls
EvidencePersisted(d, u, cls) ==
    /\ u \in DOMAIN d
    /\ d[u].examples = <<cls.labeled_examples>>
    /\ d[u].metadata # <<>>
    /\ d[u].metadata[1].examples_count = Len(cls.labeled_examples)

\* the step extended the evidence before by examples, at the end, as the
\* evidence of u, and wrote it through
WrittenThrough(u, before, examples) ==
    /\ user_models'[u].labeled_examples = before \o examples
    /\ EvidencePersisted(disk', u, user_models'[u])

\* C17: add_training_examples is append-only and write-through: a call with k
\* examples extends the evidence by exactly these k entries at the end, keeps
\* the earlier entries and duplicates, and when it returns the persisted
\* evidence document and metadata reflect the evidence in memory. Stated for
\* calls in which no read and no write of a file fails.
C17_AppendWriteThrough ==
    [][/\ \A u \in Trainers, examples \in PersistLabelInputs :
             (/\ label_emails(u, examples, TRUE, NoFaults)
              /\ request' = Request("label", u,
                                    label_request(u, examples, TRUE, NoFaults)))
             => WrittenThrough(u, get_or_create_classifier(u, TRUE).labeled_examples,
                               examples)
       /\ \A q \in TrainRequests :
             (/\ train_classifier(q.u, q.examples, q.retrain, TRUE, NoFaults)
              /\ request' = Request("train", q.u,
                                    train_request(q.u, q.examples, q.retrain, TRUE,
                                                  NoFaults)))
             => WrittenThrough(q.u,
                               IF q.retrain THEN <<>>
                               ELSE get_or_create_classifier(q.u, TRUE).labeled_examples,
                               q.examples)]_vars

\* C18: in every reachable state, also after a save that failed part-way, the
\* persisted metadata and evidence document of an owner come from the same
\* save: the metadata's evidence count is the number of entries of the
\* document; and a model blob on disk was written by a save no older than the
\* training recorded in the metadata's last_trained.
C18_PersistedConsistent ==
    \A u \in DOMAIN disk :
       (disk[u].metadata # <<>> /\ disk[u].examples # <<>>)
          => /\ disk[u].metadata[1].examples_count = Len(disk[u].examples[1])
             /\ disk[u].model # <<>>
                   => disk[u].model[1].saved_at >= disk[u].metadata[1].last_trained

\* the three artifacts of u describe cls: the evidence document and the
\* metadata hold its evidence, version and last_trained, and the model blob
\* holds its model, or is absent when it has none
Describes(d, u, cls) ==
    /\ u \in DOMAIN d
    /\ d[u].examples = <<cls.labeled_examples>>
    /\ d[u].metadata = <<[model_version |-> cls.model_version,
                          last_trained |-> cls.last_trained,
                          examples_count |-> Len(cls.labeled_examples)]>>
    /\ IF cls.model = NoModel THEN d[u].model = <<>>
       ELSE d[u].model # <<>> /\ d[u].model[1].model = cls.model

\* C19: persist overwrites totally: after every save_to_disk that succeeds the
\* evidence document, the model blob and the metadata all describe the
\* classifier that was saved; a model blob left by an earlier instance of the
\* owner does not survive a save of an instance without model.
C19_TotalOverwrite ==
    [][(request'.op \in {"train", "label"} /\ LastSaved(request'))
          => Describes(disk', request'.user, user_models'[request'.user])]_vars

\* c is a classifier
IsClassifier(c) ==
    /\ DOMAIN c = {"labeled_examples", "model", "model_version", "last_trained"}
    /\ c.labeled_examples \in Seq([email_id : Emails, is_important : BOOLEAN])
    /\ c.model \in Nat /\ c.model_version \in Nat /\ c.last_trained \in Nat

\* the evidence in the directory of u
PersistedEvidence(u) ==
    IF disk[u].examples # <<>> THEN disk[u].examples[1] ELSE <<>>

\* what load_from_disk returns for u in the current state
Hydrated(u, read_ok) == load_from_disk(disk, u, uuid_next, read_ok)

\* C20: load_from_disk never fails the caller: whatever artifacts are present,
\* absent or unreadable it returns a classifier; an absent directory gives a
\* new empty classifier, an absent model blob a classifier with the persisted
\* evidence and no model, a read or parse error an empty classifier; and the
\* startup puts such a classifier in the registry for every directory.
C20_HydrateNeverFails ==
    /\ [](\A u \in Users, read_ok \in BOOLEAN :
            /\ IsClassifier(Hydrated(u, read_ok))
            /\ (u \notin DOMAIN disk \/ ~read_ok)
                  => Hydrated(u, read_ok) = EmailClassifier(uuid_next)
            /\ (u \in DOMAIN disk /\ read_ok /\ disk[u].model = <<>>)
                  => /\ Hydrated(u, read_ok).labeled_examples = PersistedEvidence(u)
                     /\ Hydrated(u, read_ok).model = NoModel)
    /\ [][request'.op = "restart" =>
             /\ DOMAIN user_models' = DOMAIN disk
             /\ \A u \in DOMAIN disk :
                   \/ user_models'[u] = EmailClassifier(user_models'[u].model_version)
                   \/ /\ user_models'[u].labeled_examples = PersistedEvidence(u)
                      /\ disk[u].model = <<>> => user_models'[u].model = NoModel]_vars

\* C20 happens: after a restart u1 has the evidence of its directory, which
\* holds no model blob, and no model
C20_Witness ==
    /\ request.op = "restart"
    /\ "u1" \in DOMAIN disk /\ "u1" \in DOMAIN user_models
    /\ disk["u1"].model = <<>>
    /\ PersistedEvidence("u1") # <<>>
    /\ user_models["u1"].labeled_examples = PersistedEvidence("u1")
    /\ user_models["u1"].model = NoModel

\* u's classifier as a restart would hydrate it from the directories d, v the
\* uuid of the instance the restart constructs
Restarted(d, u, v) == load_from_disk(d, u, v, TRUE)

\* hydrating gives back the classifier that was saved: the same evidence
\* sequence, model_version and last_trained, and a model exactly when the
\* saved classifier had one
RoundTrip(d, u, cls, v) ==
    LET h == Restarted(d, u, v)
    IN  /\ h.labeled_examples = cls.labeled_examples
        /\ h.model_version = cls.model_version
        /\ h.last_trained = cls.last_trained
        /\ (h.model # NoModel) <=> (cls.model # NoModel)

\* C21: persist/hydrate round trip: after every train, label or feedback call
\* whose save_to_disk succeeded, hydrating the owner's directory yields a
\* classifier with the same evidence sequence, the same model_version and
\* last_trained, and a model present exactly when the saved classifier had one.
C21_RoundTrip ==
    [][(request'.op \in {"train", "label", "feedback"} /\ LastSaved(request'))
          => RoundTrip(disk', request'.user, user_models'[request'.user],
                       uuid_next')]_vars

\* the evidence get_or_create_classifier hands to a request of u: that of the
\* registry entry when there is one, else that of the directory when it exists
\* and is read without error, else none
EvidenceGot(u, read_ok) ==
    IF u \in DOMAIN user_models THEN user_models[u].labeled_examples
    ELSE IF u \in DOMAIN disk /\ read_ok THEN PersistedEvidence(u)
    ELSE <<>>

\* the step is a request of u that went through get_or_create_classifier and
\* then added examples: the registry gained at most the entry of u, the other
\* entries are the instances they were, and the evidence of u is the evidence
\* got (none of it after a retrain request) followed by examples; an instance
\* that was in the registry and was not trained keeps model and model_version
GotOrCreated(u, examples, retrain, read_ok) ==
    /\ DOMAIN user_models' = DOMAIN user_models \cup {u}
    /\ \A x \in DOMAIN user_models \ {u} : user_models'[x] = user_models[x]
    /\ user_models'[u].labeled_examples
          = (IF retrain THEN <<>> ELSE EvidenceGot(u, read_ok)) \o examples
    /\ (u \in DOMAIN user_models /\ ~request'.trained)
          => /\ user_models'[u].model_version = user_models[u].model_version
             /\ user_models'[u].last_trained = user_models[u].last_trained

\* C22: get_or_create_classifier returns the in-memory instance when the owner
\* is in the registry and hydrates from disk only when it is not; it never
\* fails (a directory that cannot be read gives an empty classifier);
\* afterwards the registry holds one classifier for the owner, and repeated
\* calls keep working on that instance without discarding its in-memory
\* evidence, also when the directory holds other evidence.
C22_GetOrCreate ==
    [][/\ request'.op = "label" =>
             \A u \in Trainers, examples \in PersistLabelInputs, f \in RegistryFaults :
                (/\ label_emails(u, examples, TRUE, f)
                 /\ request' = Request("label", u,
                                       label_request(u, examples, TRUE, f)))
                => GotOrCreated(u, examples, FALSE, f.read_ok)
       /\ request'.op = "train" =>
             \A u \in Trainers, examples \in RestartTrainInputs, retrain \in BOOLEAN :
                (/\ train_classifier(u, examples, retrain, TRUE, NoFaults)
                 /\ request' = Request("train", u,
                                       train_request(u, examples, retrain, TRUE,
                                                     NoFaults)))
                => GotOrCreated(u, examples, retrain, TRUE)]_vars

\* C22 happens: two label calls of u1 whose saves wrote nothing: the second
\* call extended the evidence of the instance in the registry, which the
\* directory does not hold
C22_Witness ==
    /\ request.op = "label" /\ request.saved = <<FALSE>>
    /\ "u1" \in DOMAIN user_models /\ "u1" \in DOMAIN disk
    /\ Len(user_models["u1"].labeled_examples) = 2
    /\ disk["u1"].examples = <<>>

\* a reset removed the registry entry of u1 and failed to remove its
\* directory: the next request of u1 hydrates the evidence it holds
C22_DirectoryWithoutEntry ==
    /\ request.op = "reset"
    /\ "u1" \notin DOMAIN user_models /\ "u1" \in DOMAIN disk
    /\ PersistedEvidence("u1") # <<>>

\* a step in which POST /reset/{u} replied
ResetStep(u) == request'.op = "reset" /\ request'.user = u

\* the registry and the directories hold nothing of u
NoStateOf(um, d, u) == u \notin DOMAIN um /\ u \notin DOMAIN d

\* the directory of u after the step holds, of each file, what it held before
\* or nothing, and the other directories are as they were
OnlyRemoved(u) ==
    /\ DOMAIN disk' \cup {u} = DOMAIN disk \cup {u}
    /\ \A x \in DOMAIN disk' \ {u} : disk'[x] = disk[x]
    /\ u \in DOMAIN disk'
          => /\ u \in DOMAIN disk
             /\ \A a \in Artifacts : disk'[u][a] \in {disk[u][a], <<>>}

\* C23: reset(owner) removes the owner's registry entry and deletes
\* its persisted artifacts, succeeds when no state existed, and a second reset
\* directly after the first changes nothing and leaves no persisted artifacts
\* and no registry entry for that owner.
C23_ResetIdempotent ==
    [][\A u \in Users :
          ResetStep(u)
             => /\ NoStateOf(user_models', disk', u)
                /\ (request.op = "reset" /\ request.user = u)
                      => UNCHANGED <<user_models, disk>>]_vars

\* what every reset does: it removes the owner's registry entry and leaves
\* the other entries alone; it deletes the owner's directory unless the
\* removal raises, in which case files of the directory remain; it is enabled
\* and changes nothing when no state existed.
ResetRemoves ==
    /\ [](\A u \in Trainers : ENABLED (reset_user_model(u, Removed)))
    /\ [][\A u \in Users :
             ResetStep(u)
                => /\ u \notin DOMAIN user_models'
                   /\ \A x \in DOMAIN user_models \ {u} :
                         x \in DOMAIN user_models' /\ user_models'[x] = user_models[x]
                   /\ OnlyRemoved(u)
                   /\ NoStateOf(user_models, disk, u)
                         => UNCHANGED <<user_models, disk, uuid_next>>]_vars

\* a reset of u1 replied and files of its directory are still there
ResetLeftFiles ==
    /\ request.op = "reset" /\ request.user = "u1"
    /\ "u1" \in DOMAIN disk /\ PersistedEvidence("u1") # <<>>

ScanEnds == pc = "scanning" /\ pc' # "scanning"

\* the record p is in the list of its owner
Listed(p) ==
    \E j \in DOMAIN unclassified_by_user :
       /\ unclassified_by_user[j].user_id = p.userId
       /\ p.emailId \in Range(unclassified_by_user[j].email_ids)

\* C28: scanning covers the whole embedding store: when the scan of a cycle
\* ends, every stored record that is neither processed nor already labeled is
\* in its owner's list for that cycle, however many records the store holds.
C28_ScanCoversStore ==
    [][ScanEnds =>
          \A i \in DOMAIN points :
             (/\ points[i].emailId \notin processed_emails
              /\ gt[points[i].emailId].importance = "unclassified")
                => Listed(points[i])]_vars

\* C29: when the ground-truth store is unreachable the scheduler defers the
\* cycle: it submits no batch, writes nothing, and marks no unlabeled id
\* processed (other than those of owners without a trained model), so that the
\* same ids are discovered again once the store is reachable. Stated for the
\* scheduler that could not connect to SQLite when it was initialized.
C29_StoreUnavailableDefers ==
    ~sqlite_client
       => /\ pc \notin {"submitting", "reconciling"}
          /\ written = {}
          /\ \A e \in processed_emails \ unready_marked :
                gt[e].importance # "unclassified"

\* process_user_emails is in its loop over the batches of the current owner
InLoop == pc \in {"submitting", "reconciling"}

\* the ids from index i on of the list process_user_emails was called with
FromIndex(i) == Drop(CurrentIds, i)

\* C30: a ready owner's discovered ids are split into consecutive batches of at
\* most batch_size ids: the batch at hand starts at a multiple of batch_size in
\* the list of discovered ids and holds the next ids in discovery order, only
\* the last batch is smaller than batch_size, the next batch starts where this
\* one ends, so that every id is in exactly one batch, and a batch is submitted
\* only when no result of the batch before it is left to write.
C30_Batching ==
    /\ [](InLoop =>
            /\ \E k \in 0..Len(CurrentIds) :
                  /\ k * batch_size < Len(CurrentIds)
                  /\ email_ids = FromIndex(k * batch_size)
            /\ batch # <<>> /\ Len(batch) <= batch_size
            /\ \A i \in DOMAIN batch : batch[i] = email_ids[i]
            /\ Len(batch) < batch_size => Len(batch) = Len(email_ids)
            /\ pc = "submitting" => results = <<>>)
    /\ [][(InLoop /\ pc' = "submitting" /\ email_ids' # email_ids)
             => /\ email_ids' = Drop(email_ids, Len(batch))
                /\ unclassified_by_user' = unclassified_by_user]_vars

\* C30 happens: the second batch of three discovered ids is being submitted,
\* and it holds the one id the first batch left
C30_Witness ==
    /\ pc = "submitting"
    /\ Len(CurrentIds) = batch_size + 1
    /\ batch = <<CurrentIds[batch_size + 1]>>

\* the handler t changes the evidence, the model or the directory of its user
Mutating(t) == tasks[t].op \in {"train", "label"}

\* every directory is that of a registered owner and describes its classifier
DiskMatchesRegistry ==
    /\ DOMAIN disk = DOMAIN user_models
    /\ \A u \in DOMAIN user_models : Describes(disk, u, user_models[u])

\* C25: the mutating operations of an owner are serialized: a train or label
\* request that has started holds the event loop until it replies, so no
\* other train, label or reset of the owner takes effect between its evidence
\* mutation and its disk writes; at most one of them is in progress, and the
\* persisted evidence, model and metadata are those of the registry's
\* classifier, the state the requests served so far produce one after the
\* other.
C25_Serialized ==
    /\ \A t \in DOMAIN tasks : Mutating(t) => running = {t}
    /\ Cardinality({t \in DOMAIN tasks : Mutating(t)}) <= 1
    /\ DiskMatchesRegistry

\* C25 happens: a train request of u1 has added its two examples and saved
\* them, and awaits the emails before it trains
C25_Witness ==
    \E t \in DOMAIN tasks :
       /\ tasks[t].op = "train" /\ tasks[t].pc = "fetched"
       /\ "u1" \in DOMAIN user_models
       /\ Len(user_models["u1"].labeled_examples) = 2
       /\ user_models["u1"].model = NoModel
       /\ disk["u1"].examples = <<user_models["u1"].labeled_examples>>

\* a step in which the handler of a classify request predicted and replied
Predicted ==
    /\ request'.op = "classify"
    /\ \E t \in DOMAIN tasks \ DOMAIN tasks' : tasks[t].pc = "reference"

\* C26: a classify request never overlaps a mutation of its owner: while it is
\* in progress it holds the event loop and its classifier stays as it found
\* it, and when it predicts, the evidence ids it fetched its reference set for
\* are those of the classifier it predicts with, which is the classifier it
\* looked up.
C26_ClassifyIsolated ==
    /\ [](\A t \in DOMAIN tasks :
             tasks[t].op = "classify"
                => /\ running = {t}
                   /\ tasks[t].held = <<>>
                   /\ Obj(t) = tasks[t].seen)
    /\ [][Predicted
             => /\ request'.now = request'.seen
                /\ request'.rows = Ids(request'.now.labeled_examples)]_vars

\* C26 happens: a classify request of u1 fetched the reference set of two
\* evidence entries and predicted e1 with the trained model
C26_Witness ==
    /\ request.op = "classify" /\ request.status = 200
    /\ Len(request.rows) = 2
    /\ response.results # <<>> /\ response.results[1].confidence = 90
    /\ response.model_version = request.now.model_version

\* a step in which the handler t ran EmailClassifier.train, fitted a model
\* and replied
Fitted(t) ==
    /\ t \in DOMAIN tasks \ DOMAIN tasks'
    /\ Mutating(t)
    /\ request'.trained

\* C27: a train call trains on the owner's evidence as it stood when
\* EmailClassifier.train started: the rows of the fitted model are the entries
\* of that evidence that resolve to a fetched email, in order and with their
\* labels, and the evidence is the same when train returns.
C27_TrainsOnSnapshot ==
    [][\A t \in Slots :
          Fitted(t) =>
             LET before == Obj(t).labeled_examples
                 fetched == get_emails_by_ids(tasks[t].ids, TRUE)
             IN  /\ request'.rows
                       = SelectSeq(before, LAMBDA ex : ex.email_id \in Range(fetched))
                 /\ Len(request'.rows) >= MinExamples
                 /\ request'.seen.labeled_examples = before
                 /\ request'.now.labeled_examples = before]_vars

\* C27 happens: the train request added (e1, important) and (e2, not
\* important) to an empty classifier and the model was fitted on both
C27_Witness ==
    /\ request.op = "train" /\ request.trained
    /\ request.rows = <<Ex("e1", TRUE), Ex("e2", FALSE)>>
    /\ request.now.model = request.now.model_version

\* the ground-truth record of e is labeled
Labeled(e) == gt[e].importance \in Importances

\* C31: in continuous mode, with all external calls succeeding and the loop
\* scheduled fairly, every embedded email that is unclassified and whose owner
\* is ready with a trained model when the id is first discovered is eventually
\* labeled important or not_important. (The statement as the claim makes it.)
C31_Original == \A e \in Emails : (e \in found_ready) ~> Labeled(e)

\* C31, amended: the owner has to stay ready with a trained model; an id
\* discovered for a trained, ready owner is eventually labeled unless the
\* owner's classifier is reset in the meantime.
C31_EventuallyLabeled ==
    \A e \in Emails :
       (e \in found_ready) ~> (Labeled(e) \/ ~TrainedAndReady(PointUser(e)))

\* C31 happens: e1 was listed for the trained owner u1 and the scheduler wrote
\* its label
C31_Witness ==
    /\ "e1" \in found_ready
    /\ "e1" \in written
    /\ Labeled("e1")
    /\ TrainedAndReady("u1")

\* the scheduler process has ended after its start-up opened a client
Stopped == proc.at = "stopped" /\ proc.opened # {}

\* C32: whenever the scheduler process stops after its start-up (one-shot
\* completion, interruption of continuous mode, an error escaping a cycle, or
\* a failed initialization that already opened a client), cleanup has run and
\* the adapters it opened are closed; and an error inside a cycle of continuous
\* mode does not end the loop.
C32_CleanupOnExit ==
    /\ Stopped => proc.cleanup_ran /\ proc.open = {}
    /\ proc.how = "error" /\ ~proc.once => proc.at = "running"

\* what holds of the exits: when main ends after initialize returned True,
\* cleanup has run and the HTTP and SQLite clients are closed, and an error
\* inside a cycle of continuous mode leaves the loop running
CleanupAfterStart ==
    /\ Stopped /\ proc.how # "init"
          => proc.cleanup_ran /\ proc.open \subseteq {"qdrant"}
    /\ proc.how = "error" /\ ~proc.once => proc.at = "running"

\* main has ended on a failed initialize with the SQLite connection open
InitFailedOpen ==
    proc.at = "stopped" /\ proc.how = "init" /\ "sqlite" \in proc.open

\* the last step called the extractor
Extracted == request.op = "extract"

\* the extractor took its early return: the target has no embedding or the
\* reference set is empty
Degenerate ==
    \/ request.email_data.embedding = NoEmbedding
    \/ request.labeled_email_data = <<>>

\* C33: the feature extractor returns a vector of the same fixed length, 15
\* entries, for every input, on the degenerate path and on the normal path.
C33_FixedLength == Extracted => Len(request.features) = FeatureCount

\* the vectors the extractor builds on its normal path: their length
NormalLength == Extracted /\ ~Degenerate => Len(request.features) = FeatureCount - 1

\* C34: for all reference sets and all targets with no embedding, and for all
\* targets when the reference set is empty, the extractor returns the all-zero
\* 15-vector, raises nothing and leaves the classifier state as it was.
C34_DegenerateZero ==
    /\ [](Extracted /\ Degenerate
            => request.features = [i \in 1..FeatureCount |-> 0])
    /\ [][request'.op = "extract" /\ request' # request
            => UNCHANGED <<user_models, disk, uuid_next>>]_vars

\* C34 happens: the target has no embedding, the reference set has two emails
\* with embeddings, the classifier has evidence, and the vector is all zero
C34_Witness ==
    /\ Extracted
    /\ request.email_data.embedding = NoEmbedding
    /\ Len(request.labeled_email_data) = 2
    /\ request.labeled_email_data[1].embedding # NoEmbedding
    /\ Len(user_models["u1"].labeled_examples) = 2
    /\ request.features = <<0, 0, 0, 0, 0, 0, 0, 0, 0, 0, 0, 0, 0, 0, 0>>

\* the ids whose add_processed_email has inserted them
Added ==
    {tracker.th[t].email_id : t \in {x \in Threads : tracker.th[x].pc = "mark"}}

\* C35: ProcessedEmailsTracker is thread-safe with automatic persistence:
\* under any interleaving of add_processed_email and save calls from several
\* threads no added id is lost from the in-memory set, and whenever the dirty
\* flag is false the persisted file holds exactly the in-memory set.
C35_TrackerThreadSafe ==
    /\ Added \subseteq tracker.processed_emails
    /\ ~tracker.dirty /\ (\A t \in Threads : ~At(t, "mark"))
          => tracker.file = tracker.processed_emails

\* what holds: no id leaves the in-memory set
TrackerKeepsIds ==
    [][tracker.processed_emails \subseteq tracker'.processed_emails]_vars

\* every thread has returned, the flag is clear, and the file lacks an id of
\* the in-memory set: no later save writes it
TrackerLostWrite ==
    /\ \A t \in Threads : At(t, "idle")
    /\ ~tracker.dirty
    /\ tracker.file # tracker.processed_emails

\* the record of e holds the placeholder of POST /classify as a label: not
\* important, confidence 0.0, written by the scheduler
PlaceholderWritten(e) ==
    /\ gt[e].importance = "not_important"
    /\ gt[e].importance_confidence = 0
    /\ ~gt[e].user_labeled

\* C36: every label the scheduler writes to the ground-truth store is the
\* outcome of model inference: the default entry (is_important false,
\* confidence 0.0) that POST /classify returns for ids it could not classify is
\* never written as not_important.
C36_NoPlaceholderWritten == \A e \in DOMAIN gt : ~PlaceholderWritten(e)

\* a step in which process_user_emails marks a batch processed after it
\* received results for it (line 236)
BatchReconciled ==
    /\ pc = "reconciling"
    /\ Tail(results) = <<>>

\* C37: an id that the scheduler marks processed as part of a successfully
\* classified batch has a ground-truth record whose importance is not
\* unclassified: it is not marked when its write failed, or was skipped because
\* the SQLite client is absent, or matched no record.
C37_ProcessedMeansLabeled ==
    [][BatchReconciled
          => \A e \in processed_emails' \ processed_emails :
                e \in DOMAIN gt' /\ gt'[e].importance # "unclassified"]_vars

\* the owner u has no registry entry and no directory
Clean(u) == u \notin DOMAIN user_models /\ u \notin DOMAIN disk

\* a step in which POST /reset/u was served
ResetServed(u) ==
    /\ request'.op = "reset" /\ request'.user = u
    /\ tasks' = Unregistered(u)
    /\ running' = {}

\* a step in which a label or train request of u arrived and was started
Arrives(u) ==
    \/ \E t \in DOMAIN tasks' \ DOMAIN tasks : tasks'[t].user = u /\ Mutating(t)'
    \/ /\ DOMAIN tasks' = DOMAIN tasks
       /\ request'.op \in {"train", "label"} /\ request'.user = u

\* C38: once a reset of an owner has been served, the owner has no registry
\* entry and no directory, and stays without them until a label or train
\* request that arrives afterwards creates them: a request of the owner that
\* was in progress when the reset ran writes nothing back.
C38_ResetStaysClean ==
    [][\A u \in Trainers :
          /\ ResetServed(u) => Clean(u)'
          /\ Clean(u) /\ ~Arrives(u) => Clean(u)']_vars

\* the second half of C38 alone: an owner without registry entry and without
\* directory gets them only from a label or train request that arrives
NoWriteBack ==
    [][\A u \in Trainers : Clean(u) /\ ~Arrives(u) => Clean(u)']_vars

\* a step in which POST /classify or GET /stats replied
ReadServed == response' # response

\* C39: classify and stats are read-only: a step in which either replies, for
\* a user with or without classifier, leaves the registry's keys, every
\* classifier's evidence, model, model_version and last_trained, and every
\* directory as they were; no entry and no directory appears for a user that
\* had none.
C39_ReadOnly ==
    [][ReadServed =>
          /\ user_models' = user_models
          /\ disk' = disk
          /\ uuid_next' = uuid_next]_vars

\* C39 happens: u1 has a classifier and a directory, u2 has neither, and the
\* stats of u2 were asked for and answered 404
C39_Witness ==
    /\ response.op = "stats" /\ response.user = "u2" /\ response.status = 404
    /\ "u1" \in DOMAIN user_models /\ "u1" \in DOMAIN disk
    /\ "u2" \notin DOMAIN user_models /\ "u2" \notin DOMAIN disk

====
